---- MODULE Spec2Model ----
(***************************************************************************)
(* Model of the xdi resolution pipeline: service (constructor) layer,      *)
(* scope layer with its transient / singletone / thread-local / task-local *)
(* producers, and the mapping layer, driven by agents (threads or tasks)   *)
(* that resolve keys concurrently.                                         *)
(*                                                                         *)
(* Layout: 1. keys, values, results        4. state and helpers            *)
(*         2. erased containers            5. actions                      *)
(*         3. builder and layers (pure)    6. specifications               *)
(*         7. properties                                                   *)
(***************************************************************************)
EXTENDS Integers, Sequences, FiniteSets, TLC

\* ------------------------------------------------------------------ bounds
\* top-level resolve / resolve_all calls the agents issue in all
MaxCalls == 2
\* task scopes one agent enters
MaxScopes == 2
\* registration calls made on one builder (SpecReg)
MaxRegs == 3
\* shards of a DashMap registry (dashmap's default is at least 4)
NumShards == 2
\* unbox attempts made on one erased container (SpecBox)
MaxUnbox == 2
\* nested resolve frames of one agent (the stack a thread has room for)
MaxDepth == 5

\* --------------------------------------------------- 1. keys, values, results
\* TypeInfo keys: A and B are service types, X is a destination-only key
\* (a trait object or another representation).
Keys == {"A", "B", "X"}
ServiceKeys == {"A", "B"}
Providers == {1, 2}
Agents == {1, 2}
Threads == {1, 2}
Shards == 1..NumShards

NoKey == "-"
\* a typed service value: dyn is its concrete type, cid the construction
\* (factory run) it stems from, cell the shared mutable state it points to,
\* fid the factory closure that built it, deps the nested services it holds,
\* via the mapper closures applied to it.
NoVal == [dyn |-> NoKey, cid |-> 0, cell |-> 0, fid |-> 0, deps |-> <<>>, via |-> <<>>]
NoErr == [kind |-> "none", ty |-> NoKey, found |-> NoKey, origin |-> 0]

ServiceBuildError(kind, ty, found, origin) ==
    [kind |-> kind, ty |-> ty, found |-> found, origin |-> origin]

\* ServiceBuildResult<T>
Ok(v) == [ok |-> TRUE, val |-> v, err |-> NoErr]
Err(e) == [ok |-> FALSE, val |-> NoVal, err |-> e]

\* ------------------------------------------------------------------- state
VARIABLES
    prov,       \* per provider: the builder's, then the provider's registries
    phase,      \* per provider: "unused", "building", "built"
    nreg,       \* per provider: registration calls made on its builder
    single,     \* per provider and key: the Mutex<SingletoneProducer>
    tls,        \* per OS thread: THREAD_LOCAL_CTX.instances
    task,       \* per agent: the stack of TASK_LOCAL_CTX scopes it is inside
    shardOf,    \* the DashMap shard each key hashes to
    stack,      \* per agent: the call stack of resolve frames
    thr,        \* per agent: the OS thread it runs on
    panicked,   \* per agent: it hit an unrecoverable fault
    calls,      \* per agent: top-level calls issued
    nscope,     \* task scopes entered so far (names the scope instances)
    entered,    \* per agent: task scopes it entered
    cell,       \* the shared mutable state of the constructed services
    events,     \* history: the factory invocations, in order
    returned,   \* history: the results handed to top-level callers
    deep,       \* the service types whose Clone is a deep copy
    dead,       \* the OS threads whose THREAD_LOCAL_CTX has been destroyed
    SERVICE_PROVIDER,  \* the process-wide OnceLock<ServiceProvider>: 0, or the provider set
    regLog,     \* history: per provider and key, the registration steps made for the key
    erased      \* an erased container a caller holds, and what it did with it

\* ------------------------------------------------------ 2. erased containers
NoBox == [ty |-> NoKey, kind |-> "none", service |-> NoVal]

BoxedServiceNew(service) ==
    [ty |-> service.dyn, kind |-> "Boxed", service |-> service]

SyncBoxedServiceNew(service) ==
    [ty |-> service.dyn, kind |-> "SyncBoxed", service |-> service]

\* variant: a failed downcast drops the container
unbox_DropsOnFailure(box, T) ==
    IF box.service.dyn = T
    THEN [ok |-> TRUE, val |-> box.service, back |-> NoBox]
    ELSE [ok |-> FALSE, val |-> NoVal, back |-> NoBox]

\* unbox::<T>: the downcast succeeds when the stored dynamic type is T and
\* moves the value out; otherwise the container comes back unchanged.
unbox(box, T) ==
    IF box.service.dyn = T
    THEN [ok |-> TRUE, val |-> box.service, back |-> NoBox]
    ELSE [ok |-> FALSE, val |-> NoVal, back |-> box]

\* the state a deep copy made now allocates: the next one after those
\* allocated so far and after the one of a service built in this step
FreshCell(service) ==
    (IF service.cell > Len(cell) THEN service.cell ELSE Len(cell)) + 1

\* Clone of a registered service type. The registered types of the tests are
\* handles (Arc<Mutex<..>>, Rc<Mutex<..>>): the clone points to the same cell.
\* The clone of a type with a deep copy (#[derive(Clone)] over owned data)
\* has a state of its own, a copy of the original's.
Clone(service) ==
    IF service.dyn \in deep THEN [service EXCEPT !.cell = FreshCell(service)]
    ELSE service

\* Syncer closure of a scope descriptor for TService
Syncer(T, box) ==
    LET u == unbox(box, T) IN
    IF u.ok THEN Ok(SyncBoxedServiceNew(u.val))
    ELSE Err(ServiceBuildError("InvalidScopeLayerBoxedInputType", T, u.back.ty, 0))

\* variant: the splitter hands the value out and keeps an empty container
Splitter_MovesOut(T, box, kind) ==
    LET u == unbox(box, T) IN
    IF u.ok
    THEN [ok |-> TRUE,
          instance |-> NoBox,
          copy |-> [ty |-> u.val.dyn, kind |-> kind, service |-> u.val],
          err |-> NoErr]
    ELSE [ok |-> FALSE, instance |-> NoBox, copy |-> NoBox,
          err |-> ServiceBuildError("UnexpectedSingletoneSplitterParams", T, u.back.ty, 0)]

\* variant: the splitter hands out the instance it keeps, not a clone of it
Splitter_NoClone(T, box, kind) ==
    LET u == unbox(box, T) IN
    IF u.ok
    THEN [ok |-> TRUE,
          instance |-> [ty |-> u.val.dyn, kind |-> kind, service |-> u.val],
          copy |-> [ty |-> u.val.dyn, kind |-> kind, service |-> u.val],
          err |-> NoErr]
    ELSE [ok |-> FALSE, instance |-> NoBox, copy |-> NoBox,
          err |-> ServiceBuildError("UnexpectedSingletoneSplitterParams", T, u.back.ty, 0)]

\* Splitter closure: (instance, copy)
Splitter(T, box, kind) ==
    LET u == unbox(box, T) IN
    IF u.ok
    THEN [ok |-> TRUE,
          instance |-> [ty |-> u.val.dyn, kind |-> kind, service |-> u.val],
          copy |-> [ty |-> u.val.dyn, kind |-> kind, service |-> Clone(u.val)],
          err |-> NoErr]
    ELSE [ok |-> FALSE, instance |-> NoBox, copy |-> NoBox,
          err |-> ServiceBuildError("UnexpectedSingletoneSplitterParams", T, u.back.ty, 0)]

\* UnSyncer closure
UnSyncer(T, box) ==
    LET u == unbox(box, T) IN
    IF u.ok THEN Ok(BoxedServiceNew(u.val))
    ELSE Err(ServiceBuildError("InvalidScopeLayerBoxedOutputType", T, u.back.ty, 0))

\* ------------------------------------------------- 3. builder and layers
ScopeKinds == {"Transient", "Singletone", "TaskLocal", "ThreadLocal"}
NoScope == "NoScope"

\* a user factory closure: fid names the closure, deps are the keys it
\* resolves through the provider (each with `?`), fallible says whether its
\* own body may return Err.
UserFactory(fid, deps, fallible) == [fid |-> fid, deps |-> deps, fallible |-> fallible]
NoFactory == UserFactory(0, <<>>, FALSE)
NoService == [ty |-> NoKey, factory |-> NoFactory]

\* a user mapper closure: "id" is the auto-registered |x| Ok(x)
UserMapper(mid, kind, fallible) == [mid |-> mid, kind |-> kind, fallible |-> fallible]

ServiceDescriptior_from_factory(T, factory) == [ty |-> T, factory |-> factory]

\* variant: the entry records the source key as its destination
MappingDescriptor_new_DestIsSrc(TSrc, TDst, mapper) ==
    [src_ty |-> TSrc, dest_ty |-> TSrc, mapper |-> mapper]

MappingDescriptor_new(TSrc, TDst, mapper) ==
    [src_ty |-> TSrc, dest_ty |-> TDst, mapper |-> mapper]

\* SimpleDiBuilder::new: three empty layer builders
SimpleDiBuilder_new ==
    [services |-> [k \in Keys |-> NoService],
     scopes |-> [k \in Keys |-> [ty |-> NoKey, scope |-> NoScope]],
     mappings |-> [k \in Keys |-> <<>>]]

\* variant: the first constructor registered for a key stays
add_service_KeepFirst(b, T, factory) ==
    IF b.services[T] = NoService
    THEN [b EXCEPT !.services[T] = ServiceDescriptior_from_factory(T, factory)]
    ELSE b

\* ServiceLayerBuilder::add_service: insert overwrites
add_service(b, T, factory) ==
    [b EXCEPT !.services[T] = ServiceDescriptior_from_factory(T, factory)]

\* ScopeLayerBuilder::add_transient / add_singletone / add_task_local /
\* add_thread_local: insert overwrites
add_scope(b, T, kind) ==
    [b EXCEPT !.scopes[T] = [ty |-> T, scope |-> kind]]

\* variant: the new entry replaces the list under the destination
add_mapping_Replace(b, TSrc, TDst, mapper) ==
    [b EXCEPT !.mappings[TDst] = <<MappingDescriptor_new(TSrc, TDst, mapper)>>]

\* variant: the new entry goes in front of the list
add_mapping_Prepend(b, TSrc, TDst, mapper) ==
    [b EXCEPT !.mappings[TDst] = <<MappingDescriptor_new(TSrc, TDst, mapper)>> \o @]

\* MappingLayerBuilder::add_mapping: push to the list under the destination
add_mapping(b, TSrc, TDst, mapper) ==
    [b EXCEPT !.mappings[TDst] = Append(@, MappingDescriptor_new(TSrc, TDst, mapper))]

\* variant: a registration adds no mapping of the type onto itself
register_NoIdentity(b, kind, T, n, deps, fallible) ==
    add_scope(add_service(b, T, UserFactory(n, deps, fallible)), T, kind)

\* variant: a registration adds no scope entry
register_NoScope(b, kind, T, n, deps, fallible) ==
    add_mapping(add_service(b, T, UserFactory(n, deps, fallible)),
                T, T, UserMapper(n, "id", FALSE))

\* SimpleDiBuilder::transient / singletone / task_local / thread_local;
\* n numbers the registration call and names its closures
register(b, kind, T, n, deps, fallible) ==
    add_mapping(add_scope(add_service(b, T, UserFactory(n, deps, fallible)), T, kind),
                T, T, UserMapper(n, "id", FALSE))

\* SimpleDiBuilderService::map_as / map_as_trait
map_as(b, TService, TDst, n, fallible) ==
    add_mapping(b, TService, TDst, UserMapper(n, "user", fallible))

\* ServiceLayer::get
ServiceLayer_get(reg, ty) ==
    IF reg.services[ty] = NoService
    THEN Err(ServiceBuildError("ServiceNotDound", ty, NoKey, 0))
    ELSE Ok(reg.services[ty])

\* the mapper closure of MappingDescriptor::new around the user's mapper:
\* unbox::<TSrc>, the user's transform, BoxedService::new
ApplyMapper(m, box, fails) ==
    LET u == unbox(box, m.src_ty) IN
    IF ~u.ok
    THEN Err(ServiceBuildError("InvalidMappingLayerBoxedInputType", m.src_ty, u.back.ty, 0))
    ELSE IF fails
    THEN Err(ServiceBuildError("Custom", m.dest_ty, NoKey, m.mapper.mid))
    ELSE IF m.mapper.kind = "id"
    THEN Ok(BoxedServiceNew(u.val))
    ELSE Ok(BoxedServiceNew([u.val EXCEPT !.dyn = m.dest_ty,
                                          !.via = Append(@, m.mapper.mid)]))

\* the typed end of MappingLayer::resolve / resolve_all: unbox::<TService>
TypedOut(T, box) ==
    LET u == unbox(box, T) IN
    IF u.ok THEN Ok(u.val)
    ELSE Err(ServiceBuildError("InvalidMappingLayerBoxedOutputType", T, u.back.ty, 0))

\* variant: every construction is made over one shared piece of state
ServiceFactory_build_SharedCell(desc, dvals, derr, fails, newcell) ==
    IF derr # NoErr THEN Err(derr)
    ELSE IF fails
    THEN Err(ServiceBuildError("Custom", desc.ty, NoKey, desc.factory.fid))
    ELSE Ok(BoxedServiceNew([dyn |-> desc.ty, cid |-> newcell, cell |-> 1,
                             fid |-> desc.factory.fid, deps |-> dvals, via |-> <<>>]))

\* variant: the factory drops the error of a nested resolve and goes on with
\* the dependencies it has
ServiceFactory_build_Swallow(desc, dvals, derr, fails, newcell) ==
    IF fails
    THEN Err(ServiceBuildError("Custom", desc.ty, NoKey, desc.factory.fid))
    ELSE Ok(BoxedServiceNew([dyn |-> desc.ty, cid |-> newcell, cell |-> newcell,
                             fid |-> desc.factory.fid, deps |-> dvals, via |-> <<>>]))

\* ServiceFactory::build around the user's factory: `factory(sp)?` then
\* BoxedService::new. dvals are the services its nested resolves returned,
\* derr the error one of them returned (the factory passes it on with `?`),
\* fails whether the factory's own body returns Err, newcell the state the
\* new service allocates.
ServiceFactory_build(desc, dvals, derr, fails, newcell) ==
    IF derr # NoErr THEN Err(derr)
    ELSE IF fails
    THEN Err(ServiceBuildError("Custom", desc.ty, NoKey, desc.factory.fid))
    ELSE Ok(BoxedServiceNew([dyn |-> desc.ty, cid |-> newcell, cell |-> newcell,
                             fid |-> desc.factory.fid, deps |-> dvals, via |-> <<>>]))

\* variant: the missing task scope is reported as a missing scope entry
TaskLocalCtx_get_err_ScopeNotFound(ty) ==
    ServiceBuildError("ScopeNotFound", ty, NoKey, 0)

\* TaskLocalCtx::get: TASK_LOCAL_CTX.try_with fails outside a task scope
TaskLocalCtx_get_err(ty) ==
    ServiceBuildError("TaskLocalContextNotInitialized", ty, NoKey, 0)

\* variant: a thread has no context until a scope is entered on it
ThreadCtxMissing_UntilEntered(a) == task[a] = <<>>

\* ThreadLocalCtx::get: THREAD_LOCAL_CTX.try_with initialises the thread's
\* context on first use and fails only once the thread has destroyed it
ThreadCtxMissing(a) == thr[a] \in dead

ThreadLocalCtx_get_err(ty) ==
    ServiceBuildError("ThreadLocalContextNotInitialized", ty, NoKey, 0)

\* producer states
Pending == [st |-> "Pending", instance |-> NoBox]
Empty == [st |-> "Empty", instance |-> NoBox]
Absent == [st |-> "Absent", instance |-> NoBox]
Created(instance) == [st |-> "Created", instance |-> instance]

\* variant: the first build hands its copy out and keeps nothing
SingletoneProducer_build_NoCache(T, old, built) ==
    IF ~built.ok THEN [res |-> Err(built.err), state |-> Empty]
    ELSE [res |-> Ok(built.val), state |-> Pending]

\* variant: produce hands the service out and keeps nothing
ThreadLocalProducer_produce_NoCache(T, old, built) ==
    IF ~built.ok THEN [res |-> Err(built.err), state |-> Pending]
    ELSE [res |-> Ok(built.val), state |-> Pending]

\* variant: produce hands the service out and keeps nothing
TaskLocalProducer_produce_NoCache(T, old, built) ==
    IF ~built.ok THEN [res |-> Err(built.err), state |-> Pending]
    ELSE [res |-> Ok(built.val), state |-> Pending]

\* SingletoneProducer::build after mem::replace(self, Empty): old is the
\* state taken out, built the factory's result (read only when old is
\* Pending). Every `?` leaves the state as mem::replace left it.
SingletoneProducer_build(T, old, built) ==
    IF old.st = "Pending"
    THEN IF ~built.ok THEN [res |-> Err(built.err), state |-> Empty]
         ELSE LET sy == Syncer(T, built.val) IN
              IF ~sy.ok THEN [res |-> Err(sy.err), state |-> Empty]
              ELSE LET sp == Splitter(T, sy.val, "SyncBoxed") IN
                   IF ~sp.ok THEN [res |-> Err(sp.err), state |-> Empty]
                   ELSE LET un == UnSyncer(T, sp.copy) IN
                        IF ~un.ok THEN [res |-> Err(un.err), state |-> Empty]
                        ELSE [res |-> Ok(un.val), state |-> Created(sp.instance)]
    ELSE LET sp == Splitter(T, old.instance, "SyncBoxed") IN
         IF ~sp.ok THEN [res |-> Err(sp.err), state |-> Empty]
         ELSE LET un == UnSyncer(T, sp.copy) IN
              IF ~un.ok THEN [res |-> Err(un.err), state |-> Empty]
              ELSE [res |-> Ok(un.val), state |-> Created(sp.instance)]

\* variant: a failed build poisons the producer
ThreadLocalProducer_produce_Poisoned(T, old, built) ==
    LET service == IF old.st = "Created" THEN Ok(old.instance) ELSE built IN
    IF ~service.ok THEN [res |-> Err(service.err), state |-> Empty]
    ELSE LET sp == Splitter(T, service.val, "Boxed") IN
         IF ~sp.ok THEN [res |-> Err(sp.err), state |-> Empty]
         ELSE [res |-> Ok(sp.copy), state |-> Created(sp.instance)]

\* ThreadLocalProducer::produce after mem::replace(self, Pending)
ThreadLocalProducer_produce(T, old, built) ==
    LET service == IF old.st = "Created" THEN Ok(old.instance) ELSE built IN
    IF ~service.ok THEN [res |-> Err(service.err), state |-> Pending]
    ELSE LET sp == Splitter(T, service.val, "Boxed") IN
         IF ~sp.ok THEN [res |-> Err(sp.err), state |-> Pending]
         ELSE [res |-> Ok(sp.copy), state |-> Created(sp.instance)]

\* TaskLocalProducer::produce after mem::replace(self, Pending)
TaskLocalProducer_produce(T, old, built) ==
    LET service == IF old.st = "Created" THEN Ok(old.instance)
                   ELSE IF ~built.ok THEN built
                   ELSE Syncer(T, built.val) IN
    IF ~service.ok THEN [res |-> Err(service.err), state |-> Pending]
    ELSE LET sp == Splitter(T, service.val, "SyncBoxed") IN
         IF ~sp.ok THEN [res |-> Err(sp.err), state |-> Pending]
         ELSE LET un == UnSyncer(T, sp.copy) IN
              IF ~un.ok THEN [res |-> Err(un.err), state |-> Pending]
              ELSE [res |-> Ok(un.val), state |-> Created(sp.instance)]

\* -------------------------------------------------- 4. state and helpers

vars == <<prov, phase, nreg, single, tls, task, shardOf, stack, thr, panicked,
          calls, nscope, entered, cell, events, returned, deep, dead, regLog, SERVICE_PROVIDER, erased>>

NoRes == [ok |-> FALSE, val |-> NoBox, err |-> NoErr]

\* variant: resolve_raw takes the latest entry under the key
mappings_last(list) == Len(list)

\* MappingLayer::resolve_raw: `.first()` of the entries under the key
mappings_first(list) == 1

\* a resolve / resolve_all activation of the mapping layer
Frame(op, p, ty) ==
    [op |-> op, p |-> p, ty |-> ty,
     idx |-> IF op = "resolve" THEN mappings_first(prov[p].mappings[ty]) ELSE 1,
     pc |-> "scope", src |-> NoKey,
     holds |-> "none", n |-> 0, dvals |-> <<>>, derr |-> NoErr,
     res |-> NoRes, acc |-> <<>>, inv |-> <<>>]

Top(s) == s[Len(s)]
SetTop(s, f) == [s EXCEPT ![Len(s)] = f]
Pop(s) == SubSeq(s, 1, Len(s) - 1)

Idle(a) == stack[a] = <<>> /\ ~panicked[a]

TotalCalls == calls[1] + calls[2]

\* the OS thread of a runs one agent at a time
ThreadFree(a) == \A b \in Agents \ {a} : thr[b] = thr[a] => stack[b] = <<>>

\* variant: try_with finds the context by the OS thread it runs on
CtxSlot_PerThread(a) == thr[a]

\* TASK_LOCAL_CTX.try_with: the context registered by scope() lives in the
\* scoped future and is in place whenever that future is polled, on whichever
\* worker thread; try_with finds the context of the running task
CtxSlot(a) == a

\* the task scope the agent is in (0: none)
CurScope(a) == IF task[a] = <<>> THEN 0 ELSE Top(task[a]).id

\* MappingLayer: `mappings.get(&ty)` (with `.first()` for resolve_raw)
HasMapping(reg, ty) == reg.mappings[ty] # <<>>

\* entry(ty) needs the shard's write lock while an enclosing produce of this
\* agent on the same registry still holds its read lock
ShardBlocked(a, kind, ty) ==
    \E i \in 1..Len(stack[a]) :
        /\ stack[a][i].pc = "factory"
        /\ stack[a][i].holds = kind
        /\ shardOf[stack[a][i].src] = shardOf[ty]

\* the result a frame returns: to the enclosing factory, or to the caller
TypedResult(ok, vals, err) == [ok |-> ok, vals |-> vals, err |-> err]

Deliver(s, r) ==
    IF s = <<>> THEN s
    ELSE SetTop(s, IF r.ok THEN [Top(s) EXCEPT !.dvals = Append(@, r.vals[1])]
                   ELSE [Top(s) EXCEPT !.derr = r.err])

Record(a, f, r) ==
    [agent |-> a, k |-> calls[a], op |-> f.op, p |-> f.p, ty |-> f.ty,
     thr |-> thr[a], scope |-> CurScope(a), ok |-> r.ok, vals |-> r.vals,
     err |-> r.err, seen |-> [i \in DOMAIN r.vals |-> cell[r.vals[i].cell]],
     seenDeps |-> [i \in DOMAIN r.vals |->
                     [j \in DOMAIN r.vals[i].deps |-> cell[r.vals[i].deps[j].cell]]],
     inv |-> Append(f.inv, f.n)]

\* the factory runs of the agent that a fault cuts short
Aborted(a) ==
    [n \in DOMAIN events |->
        IF events[n].agent = a /\ events[n].status = "running"
        THEN [events[n] EXCEPT !.status = "panic"] ELSE events[n]]

\* unwinding: the guards of the agent's frames drop, the states stay as the
\* mem::replace calls left them
Unwound(a) ==
    [p \in Providers |-> [k \in Keys |->
        IF single[p][k].holder = a THEN [single[p][k] EXCEPT !.holder = 0]
        ELSE single[p][k]]]

\* -------------------------------------------------------------- 5. actions
\* --- the builder (one thread owns it until build consumes it)

\* variant: the builder outlives build and still feeds the provider's layers
BuilderAlive_Borrowed(p) == phase[p] \in {"building", "built"}

\* the registration methods take &self of a SimpleDiBuilder; build takes self
\* by value, so the builder exists from new until build
BuilderAlive(p) == phase[p] = "building"

\* SimpleDiBuilder::transient / singletone / task_local / thread_local
Register(p, kind, T, deps, fallible) ==
    /\ BuilderAlive(p)
    /\ nreg[p] < MaxRegs
    /\ nreg' = [nreg EXCEPT ![p] = @ + 1]
    /\ prov' = [prov EXCEPT ![p] = register(@, kind, T, nreg[p] + 1, deps, fallible)]
    /\ regLog' = [regLog EXCEPT ![p][T] =
            [count |-> @.count + 1, kind |-> kind, n |-> nreg[p] + 1]]
    /\ UNCHANGED <<dead, SERVICE_PROVIDER, deep, erased, phase, single, tls, task, shardOf, stack, thr, panicked, calls,
                   nscope, entered, cell, events, returned>>

\* SimpleDiBuilderService<TService>::map_as / map_as_trait: reachable only
\* from the value a registration of TService returned
MapAs(p, TService, TDst, fallible) ==
    /\ BuilderAlive(p)
    /\ nreg[p] < MaxRegs
    /\ prov[p].services[TService] # NoService
    /\ nreg' = [nreg EXCEPT ![p] = @ + 1]
    /\ prov' = [prov EXCEPT ![p] = map_as(@, TService, TDst, nreg[p] + 1, fallible)]
    /\ UNCHANGED <<regLog, dead, SERVICE_PROVIDER, deep, erased, phase, single, tls, task, shardOf, stack, thr, panicked, calls,
                   nscope, entered, cell, events, returned>>

\* no registration step was made for the key
NoReg == [count |-> 0, kind |-> "NoScope", n |-> 0]

\* variant: one singletone slot per type for the whole process
SingletoneOwner_Process(p) == 1

\* ServiceScopeDescriptior::singletone: the Mutex<SingletoneProducer> is a
\* field of the scope descriptor, which the provider's Arc<MappingLayer>
\* owns; every clone of the handle reaches the same one
SingletoneOwner(p) == p

\* the Mutex<SingletoneProducer> each singletone scope descriptor is created with
SingleInit(reg) ==
    [k \in Keys |-> [st |-> IF reg.scopes[k].scope = "Singletone" THEN "Pending" ELSE "none",
                     instance |-> NoBox, holder |-> 0]]

\* SimpleDiBuilder::build
Build(p) ==
    /\ BuilderAlive(p)
    /\ phase[p] = "building"
    /\ phase' = [phase EXCEPT ![p] = "built"]
    /\ single' = [single EXCEPT ![p] = SingleInit(prov[p])]
    /\ UNCHANGED <<regLog, dead, SERVICE_PROVIDER, deep, erased, prov, nreg, tls, task, shardOf, stack, thr, panicked, calls,
                   nscope, entered, cell, events, returned>>

\* --- calls into a provider

\* variant: resolve_all of a key with no entry collects nothing
MappingMissing_EmptyList(op, ty) ==
    IF op = "resolve_all" THEN TypedResult(TRUE, <<>>, NoErr)
    ELSE TypedResult(FALSE, <<>>, ServiceBuildError("MappingNotFound", ty, NoKey, 0))

\* resolve_raw / resolve_all_raw: `.ok_or(MappingNotFound { ty })?` when the
\* key has no entry
MappingMissing(op, ty) ==
    TypedResult(FALSE, <<>>, ServiceBuildError("MappingNotFound", ty, NoKey, 0))

\* ServiceProvider::resolve / resolve_all -> MappingLayer::resolve(_all)_raw:
\* the lookup of the destination key
Call(a, op, p, ty) ==
    /\ Idle(a) /\ ThreadFree(a)
    /\ phase[p] = "built"
    /\ TotalCalls < MaxCalls
    /\ calls' = [calls EXCEPT ![a] = @ + 1]
    /\ IF HasMapping(prov[p], ty)
       THEN /\ stack' = [stack EXCEPT ![a] = <<Frame(op, p, ty)>>]
            /\ UNCHANGED returned
       ELSE /\ returned' = returned \cup
                {[Record(a, Frame(op, p, ty), MappingMissing(op, ty))
                  EXCEPT !.k = calls[a] + 1, !.inv = <<>>]}
            /\ UNCHANGED stack
    /\ UNCHANGED <<regLog, dead, SERVICE_PROVIDER, deep, erased, prov, phase, nreg, single, tls, task, shardOf, thr, panicked,
                   nscope, entered, cell, events>>

CallResolve(a, p, ty) == Call(a, "resolve", p, ty)

CallResolveAll(a, p, ty) == Call(a, "resolve_all", p, ty)

\* ScopeLayer::get called with a key directly (crate-internal entry point):
\* no mapping entry stands between the caller and the scope registry
CallScopeGet(a, p, ty) ==
    /\ Idle(a) /\ ThreadFree(a)
    /\ phase[p] = "built"
    /\ TotalCalls < MaxCalls
    /\ calls' = [calls EXCEPT ![a] = @ + 1]
    /\ stack' = [stack EXCEPT ![a] = <<[Frame("resolve_all", p, ty) EXCEPT !.op = "get"]>>]
    /\ UNCHANGED <<regLog, dead, SERVICE_PROVIDER, deep, erased, prov, phase, nreg, single, tls, task, shardOf, thr,
                   panicked, nscope, entered, cell, events, returned>>

\* variant: the scope layer never finds a stored instance
ProducerOf_Forgetful(a, p, kind, src) == Pending

\* the registry a scoped producer of the frame lives in
ProducerOf(a, p, kind, src) ==
    CASE kind = "Singletone" -> [st |-> single[SingletoneOwner(p)][src].st, instance |-> single[SingletoneOwner(p)][src].instance]
      [] kind = "ThreadLocal" ->
            IF tls[thr[a]][src].st = "Absent" THEN Pending ELSE tls[thr[a]][src]
      [] kind = "TaskLocal" ->
            IF Top(task[CtxSlot(a)]).inst[src].st = "Absent" THEN Pending ELSE Top(task[CtxSlot(a)]).inst[src]
      [] OTHER -> Pending

Invocation(a, p, src, fid) ==
    [what |-> "factory", p |-> p, ty |-> src, fid |-> fid, agent |-> a, k |-> calls[a],
     thr |-> thr[a], scope |-> CurScope(a), status |-> "running", cid |-> 0,
     err |-> NoErr]

\* a run of the user's mapper m that returned Err
MapperFailure(a, p, m, err) ==
    [Invocation(a, p, m.dest_ty, m.mapper.mid) EXCEPT
        !.what = "mapper", !.status = "err", !.err = err]

\* variant: the transient arm takes a mutex of the key across the factory
Locked_AlsoTransient(kind) == kind \in {"Singletone", "Transient"}

\* ScopeLayer::get, match &scope.scope: only the Singletone arm locks a
\* mutex of the descriptor; the Transient arm calls the factory directly
Locked(kind) == kind = "Singletone"

\* variant: the producer is entered without its lock
LockFree_Unlocked(p, k) == TRUE

\* variant: one lock for the whole scope layer
LockFree_Global(p, k) == \A j \in Keys : single[p][j].holder = 0

\* singletone_state.lock() returns at once when nobody holds the Mutex of
\* the key's own scope descriptor
LockFree(p, k) == single[SingletoneOwner(p)][k].holder = 0

\* variant: the lock is given up before the factory is called
GuardHeld_Released(a) == 0

\* `singletone_state_lock.build(service, sp)`: the guard is alive for the
\* whole build call, the factory and everything it resolves included
GuardHeld(a) == a

\* variant: the guard outlives the return of ScopeLayer::get
GuardDropped_Kept(a) == a

\* the MutexGuard of the Singletone arm is a local of ScopeLayer::get: it is
\* dropped when build returns (0: nobody holds the lock)
GuardDropped(a) == 0

\* the states after a splitter ran: a copy with a state of its own starts
\* with the content of the instance it was cloned from
WithCopy(c, instance, copy) ==
    IF copy.service.cell > Len(c) THEN Append(c, c[instance.service.cell]) ELSE c

\* ScopeLayer::get: assert_eq!(scope.ty(), ty) and
\* assert_eq!(scope.ty(), service.ty())
ScopeAsserts(scope, ty, service) == scope.ty = ty /\ scope.ty = service.ty

\* MappingLayer::resolve_raw / resolve_all_raw: assert_eq!(mapping.dest_ty(), ty)
\* and assert_eq!(mapping.src_ty(), service.ty())
MappingAsserts(mapping, ty, service) ==
    mapping.dest_ty = ty /\ mapping.src_ty = service.ty

\* ScopeLayer::get up to the factory call (or to its return when the
\* producer is already Created)
ScopeGet(a) ==
    /\ stack[a] # <<>>
    /\ Top(stack[a]).pc = "scope"
    /\ LET f == Top(stack[a])
           reg == prov[f.p]
           m == reg.mappings[f.ty][f.idx]
           src == IF f.op = "get" THEN f.ty ELSE m.src_ty
           scope == reg.scopes[src]
           service == ServiceLayer_get(reg, src)
           kind == scope.scope
           old == ProducerOf(a, f.p, kind, src)
           noctx == kind = "TaskLocal" /\ task[CtxSlot(a)] = <<>>
           nothr == kind = "ThreadLocal" /\ ThreadCtxMissing(a)
           early ==
               IF kind = NoScope
               THEN Err(ServiceBuildError("MappingNotFound", src, NoKey, 0))
               ELSE IF ~service.ok THEN Err(service.err)
               ELSE IF noctx
               THEN Err(TaskLocalCtx_get_err(src))
               ELSE IF nothr
               THEN Err(ThreadLocalCtx_get_err(src))
               ELSE Ok(NoVal)
           fault == early.ok /\
                    (~ScopeAsserts(scope, src, service.val)
                       \/ (kind = "Singletone" /\ old.st = "Empty"))
           cached == early.ok /\ ~fault /\ kind # "Transient" /\ old.st = "Created"
           r == CASE kind = "Singletone" -> SingletoneProducer_build(src, old, NoRes)
                  [] kind = "ThreadLocal" -> ThreadLocalProducer_produce(src, old, NoRes)
                  [] kind = "TaskLocal" -> TaskLocalProducer_produce(src, old, NoRes)
                  [] OTHER -> [res |-> NoRes, state |-> Pending]
           \* the state the producer is left in while the factory runs, or
           \* after the split
           left == IF cached THEN r.state
                   ELSE IF kind = "Singletone" THEN Empty ELSE Pending
       IN
       \* the locks on the way to the producer
       /\ (early.ok /\ Locked(kind)) => LockFree(f.p, src)
       /\ (early.ok /\ kind = "ThreadLocal") => ~ShardBlocked(a, "ThreadLocal", src)
       /\ (early.ok /\ kind = "TaskLocal") => ~ShardBlocked(a, "TaskLocal", src)
       /\ IF ~early.ok
          THEN /\ stack' = [stack EXCEPT ![a] =
                      SetTop(@, [f EXCEPT !.pc = "post", !.src = src,
                                          !.res = [ok |-> FALSE, val |-> NoBox,
                                                   err |-> early.err]])]
               /\ UNCHANGED <<single, tls, task, panicked, events, cell>>
          ELSE IF fault
          THEN /\ stack' = [stack EXCEPT ![a] = <<>>]
               /\ panicked' = [panicked EXCEPT ![a] = TRUE]
               /\ single' = Unwound(a)
               /\ events' = Aborted(a)
               /\ UNCHANGED <<tls, task, cell>>
          ELSE /\ cell' = IF cached /\ r.res.ok
                          THEN WithCopy(cell, old.instance, r.res.val)
                          ELSE cell
               /\ stack' = [stack EXCEPT ![a] =
                      SetTop(@, IF cached
                                THEN [f EXCEPT !.pc = "post", !.src = src,
                                               !.res = [ok |-> r.res.ok,
                                                        val |-> IF r.res.ok THEN r.res.val ELSE NoBox,
                                                        err |-> r.res.err]]
                                ELSE [f EXCEPT !.pc = "factory", !.src = src,
                                               !.holds = kind,
                                               !.n = Len(events) + 1])]
               /\ events' = IF cached THEN events
                            ELSE Append(events,
                                        Invocation(a, f.p, src, service.val.factory.fid))
               /\ single' = IF Locked(kind)
                            THEN [single EXCEPT ![SingletoneOwner(f.p)][src] =
                                    [st |-> left.st, instance |-> left.instance,
                                     holder |-> IF cached THEN GuardDropped(a)
                                                ELSE GuardHeld(a)]]
                            ELSE single
               /\ tls' = IF kind = "ThreadLocal"
                         THEN [tls EXCEPT ![thr[a]][src] = left]
                         ELSE tls
               /\ task' = IF kind = "TaskLocal"
                          THEN [task EXCEPT ![CtxSlot(a)] =
                                  SetTop(@, [Top(@) EXCEPT !.inst[src] = left])]
                          ELSE task
               /\ UNCHANGED panicked
    /\ UNCHANGED <<regLog, dead, SERVICE_PROVIDER, deep, erased, prov, phase, nreg, shardOf, thr, calls, nscope, entered,
                   returned>>

BoxRes(r) == [ok |-> r.ok, val |-> IF r.ok THEN r.val ELSE NoBox, err |-> r.err]

FactoryOf(f) == prov[f.p].services[f.src].factory

\* the running factory calls sp.resolve::<D>() for its next dependency
FactoryDep(a) ==
    /\ stack[a] # <<>>
    /\ LET f == Top(stack[a])
           deps == FactoryOf(f).deps
           d == deps[Len(f.dvals) + 1]
       IN
       /\ f.pc = "factory"
       /\ f.derr = NoErr
       /\ Len(f.dvals) < Len(deps)
       /\ Len(stack[a]) < MaxDepth
       /\ stack' = [stack EXCEPT ![a] =
               IF HasMapping(prov[f.p], d)
               THEN Append(@, Frame("resolve", f.p, d))
               ELSE SetTop(@, [f EXCEPT !.derr =
                                 ServiceBuildError("MappingNotFound", d, NoKey, 0)])]
    /\ UNCHANGED <<regLog, dead, SERVICE_PROVIDER, deep, erased, prov, phase, nreg, single, tls, task, shardOf, thr, panicked,
                   calls, nscope, entered, cell, events, returned>>

\* the factory returns (its own result, or the error of a dependency passed
\* on by `?`) and the rest of ScopeLayer::get runs: the producer stores the
\* instance and the locks are released
FactoryDone(a, fails) ==
    /\ stack[a] # <<>>
    /\ LET f == Top(stack[a])
           desc == prov[f.p].services[f.src]
           kind == f.holds
           newcell == Len(cell) + 1
           built == BoxRes(ServiceFactory_build(desc, f.dvals, f.derr, fails, newcell))
           r == CASE kind = "Singletone" -> SingletoneProducer_build(f.src, Pending, built)
                  [] kind = "ThreadLocal" -> ThreadLocalProducer_produce(f.src, Pending, built)
                  [] kind = "TaskLocal" -> TaskLocalProducer_produce(f.src, Pending, built)
                  [] OTHER -> [res |-> built, state |-> Pending]
       IN
       /\ f.pc = "factory"
       /\ f.derr # NoErr \/ Len(f.dvals) = Len(desc.factory.deps)
       /\ fails => (f.derr = NoErr /\ desc.factory.fallible)
       /\ cell' = LET c == IF built.ok THEN Append(cell, 0) ELSE cell IN
                  IF r.res.ok THEN WithCopy(c, built.val, r.res.val) ELSE c
       /\ events' = [events EXCEPT ![f.n] =
               [@ EXCEPT !.status = IF built.ok THEN "ok" ELSE "err",
                         !.cid = IF built.ok THEN newcell ELSE 0,
                         !.err = built.err]]
       /\ single' = IF Locked(kind)
                    THEN [single EXCEPT ![SingletoneOwner(f.p)][f.src] =
                            [st |-> r.state.st, instance |-> r.state.instance,
                             holder |-> GuardDropped(a)]]
                    ELSE single
       /\ tls' = IF kind = "ThreadLocal"
                 THEN [tls EXCEPT ![thr[a]][f.src] = r.state]
                 ELSE tls
       /\ task' = IF kind = "TaskLocal"
                  THEN [task EXCEPT ![CtxSlot(a)] = SetTop(@, [Top(@) EXCEPT !.inst[f.src] = r.state])]
                  ELSE task
       /\ stack' = [stack EXCEPT ![a] =
               SetTop(@, [f EXCEPT !.pc = "post", !.holds = "none", !.res = BoxRes(r.res)])]
    /\ UNCHANGED <<regLog, dead, SERVICE_PROVIDER, deep, erased, prov, phase, nreg, shardOf, thr, panicked, calls, nscope, entered,
                   returned>>

\* the typed end of resolve_all: unbox every element, stop at the first failure
TypedAll(T, boxes) ==
    LET bad == {i \in DOMAIN boxes : ~TypedOut(T, boxes[i]).ok} IN
    IF bad = {}
    THEN TypedResult(TRUE, [i \in DOMAIN boxes |-> TypedOut(T, boxes[i]).val], NoErr)
    ELSE TypedResult(FALSE, <<>>,
                     TypedOut(T, boxes[CHOOSE i \in bad : \A j \in bad : i <= j]).err)

\* variant: the walk over the entries goes on after an entry failed
try_collect_next_Continue(ok, idx, list) == idx < Len(list)

\* resolve_all_raw's mappings.iter().map(..).try_collect(): the lazy walk
\* takes the next entry only after the one at idx gave Ok
try_collect_next(ok, idx, list) == ok /\ idx < Len(list)

\* MappingLayer::resolve_raw / resolve_all_raw after scope_layer.get returned:
\* `?`, the two assertions, the mapper, and the typed end; resolve_all goes on
\* to its next entry
MapStep(a, fails) ==
    /\ stack[a] # <<>>
    /\ LET f == Top(stack[a])
           list == prov[f.p].mappings[f.ty]
           m == list[f.idx]
           fault == f.op # "get" /\ f.res.ok
                    /\ ~MappingAsserts(m, f.ty, f.res.val)
           mapped == ApplyMapper(m, f.res.val, fails)
           more == f.op = "resolve_all" /\ try_collect_next(f.res.ok /\ mapped.ok, f.idx, list)
           out == IF ~f.res.ok THEN TypedResult(FALSE, <<>>, f.res.err)
                  ELSE IF f.op = "get" THEN TypedResult(TRUE, <<f.res.val.service>>, NoErr)
                  ELSE IF ~mapped.ok THEN TypedResult(FALSE, <<>>, mapped.err)
                  ELSE IF f.op = "resolve"
                  THEN LET t == TypedOut(f.ty, mapped.val) IN
                       TypedResult(t.ok, IF t.ok THEN <<t.val>> ELSE <<>>, t.err)
                  ELSE TypedAll(f.ty, Append(f.acc, mapped.val))
       IN
       /\ f.pc = "post"
       /\ fails => (f.op # "get" /\ f.res.ok /\ m.mapper.fallible)
       /\ IF fault
          THEN /\ stack' = [stack EXCEPT ![a] = <<>>]
               /\ panicked' = [panicked EXCEPT ![a] = TRUE]
               /\ single' = Unwound(a)
               /\ events' = Aborted(a)
               /\ UNCHANGED returned
          ELSE IF more
          THEN /\ stack' = [stack EXCEPT ![a] =
                      SetTop(@, [f EXCEPT !.pc = "scope", !.idx = @ + 1, !.src = NoKey,
                                          !.n = 0, !.dvals = <<>>, !.res = NoRes,
                                          !.acc = IF f.res.ok /\ mapped.ok
                                                  THEN Append(@, mapped.val) ELSE @,
                                          !.inv = Append(@, f.n)])]
               /\ UNCHANGED <<panicked, single, returned, events>>
          ELSE /\ stack' = [stack EXCEPT ![a] = Deliver(Pop(@), out)]
               /\ returned' = IF Len(stack[a]) = 1
                              THEN returned \cup {Record(a, f, out)}
                              ELSE returned
               /\ events' = IF fails /\ ~mapped.ok /\ mapped.err.kind = "Custom"
                            THEN Append(events, MapperFailure(a, f.p, m, mapped.err))
                            ELSE events
               /\ UNCHANGED <<panicked, single>>
    /\ UNCHANGED <<regLog, dead, SERVICE_PROVIDER, deep, erased, prov, phase, nreg, tls, task, shardOf, thr, calls, nscope, entered,
                   cell>>

\* --- what callers do between calls

\* the caller changes the state behind a service its last call returned
Mutate(a) ==
    /\ Idle(a)
    /\ \E r \in returned : \E i \in DOMAIN r.vals :
          /\ r.agent = a /\ r.k = calls[a]
          /\ cell[r.vals[i].cell] = 0
          /\ cell' = [cell EXCEPT ![r.vals[i].cell] = 1]
    /\ UNCHANGED <<regLog, dead, SERVICE_PROVIDER, deep, erased, prov, phase, nreg, single, tls, task, shardOf, stack, thr, panicked,
                   calls, nscope, entered, events, returned>>

\* the caller changes the state behind a service nested in a service its last
\* call returned
MutateInner(a) ==
    /\ Idle(a)
    /\ \E r \in returned : \E i \in DOMAIN r.vals : \E j \in DOMAIN r.vals[i].deps :
          /\ r.agent = a /\ r.k = calls[a]
          /\ cell[r.vals[i].deps[j].cell] = 0
          /\ cell' = [cell EXCEPT ![r.vals[i].deps[j].cell] = 1]
    /\ UNCHANGED <<regLog, dead, SERVICE_PROVIDER, deep, erased, prov, phase, nreg, single, tls, task, shardOf, stack, thr, panicked,
                   calls, nscope, entered, events, returned>>

\* variant: a scope entered inside another one starts with what the outer
\* one holds
TaskLocalCtx_span_Inherit(scopes, id) ==
    Append(scopes, [id |-> id,
                    inst |-> IF scopes = <<>> THEN [k \in Keys |-> Absent]
                             ELSE Top(scopes).inst])

\* TASK_LOCAL_CTX.scope(TaskLocalCtx::default(), f): an empty context on top
\* of the ones the task is already inside
TaskLocalCtx_span(scopes, id) ==
    Append(scopes, [id |-> id, inst |-> [k \in Keys |-> Absent]])

\* TaskLocalCtx::span (ServiceProvider::async_task_span, add_service_span):
\* the future runs with a fresh TaskLocalCtx
EnterTaskScope(a) ==
    /\ Idle(a)
    /\ entered[a] < MaxScopes
    /\ entered' = [entered EXCEPT ![a] = @ + 1]
    /\ nscope' = nscope + 1
    /\ task' = [task EXCEPT ![a] = TaskLocalCtx_span(@, nscope + 1)]
    /\ UNCHANGED <<regLog, dead, SERVICE_PROVIDER, deep, erased, prov, phase, nreg, single, tls, shardOf, stack, thr, panicked,
                   calls, cell, events, returned>>

\* the scoped future completes: its TaskLocalCtx is dropped
ExitTaskScope(a) ==
    /\ Idle(a)
    /\ task[a] # <<>>
    /\ task' = [task EXCEPT ![a] = Pop(@)]
    /\ UNCHANGED <<regLog, dead, SERVICE_PROVIDER, deep, erased, prov, phase, nreg, single, tls, shardOf, stack, thr, panicked,
                   calls, nscope, entered, cell, events, returned>>

\* --- erased containers in a caller's hands

\* the services a caller wraps: of each type, two different ones
BoxValues ==
    {[NoVal EXCEPT !.dyn = T, !.cid = c, !.cell = c, !.fid = c] :
        T \in Keys, c \in 1..2}

\* BoxedService::new / SyncBoxedService::new
BoxNew(kind, v) ==
    /\ erased.made = NoBox
    /\ LET new == IF kind = "Boxed" THEN BoxedServiceNew(v) ELSE SyncBoxedServiceNew(v) IN
       erased' = [box |-> new, made |-> new, asked |-> <<>>, got |-> NoVal]
    /\ UNCHANGED <<regLog, dead, SERVICE_PROVIDER, deep, prov, phase, nreg, single, tls, task, shardOf, stack, thr,
                   panicked, calls, nscope, entered, cell, events, returned>>

\* BoxedService::unbox::<U> / SyncBoxedService::unbox::<U> on the container
\* held: Ok(service) consumes it, Err(container) gives it back
Unbox(U) ==
    /\ erased.box # NoBox
    /\ Len(erased.asked) < MaxUnbox
    /\ LET u == unbox(erased.box, U) IN
       erased' = [erased EXCEPT !.box = u.back,
                                !.asked = Append(@, U),
                                !.got = IF u.ok THEN u.val ELSE @]
    /\ UNCHANGED <<regLog, dead, SERVICE_PROVIDER, deep, prov, phase, nreg, single, tls, task, shardOf, stack, thr,
                   panicked, calls, nscope, entered, cell, events, returned>>

\* ------------------------------------------------------ 6. specifications
NoSingle == [k \in Keys |-> [st |-> "none", instance |-> NoBox, holder |-> 0]]

\* no erased container in a caller's hands
NoErased == [box |-> NoBox, made |-> NoBox, asked |-> <<>>, got |-> NoVal]

\* what is the same in every initial state: nothing resolved yet, and the
\* registered types are handles
InitRest ==
    /\ deep = {}
    /\ dead = {}
    /\ SERVICE_PROVIDER = 0
    /\ regLog = [p \in Providers |-> [k \in Keys |-> NoReg]]
    /\ erased = NoErased
    /\ tls = [t \in Threads |-> [k \in Keys |-> Absent]]
    /\ task = [a \in Agents |-> <<>>]
    /\ stack = [a \in Agents |-> <<>>]
    /\ panicked = [a \in Agents |-> FALSE]
    /\ calls = [a \in Agents |-> 0]
    /\ nscope = 0
    /\ entered = [a \in Agents |-> 0]
    /\ cell = <<>>
    /\ events = <<>>
    /\ returned = {}

\* the builder program of the specifications below: B is a leaf service that
\* also provides X (through a user mapper), A resolves X in its factory and
\* provides X too. fallible names the registration calls (1..4) whose user
\* closure may return Err.
Program(kindA, kindB, fallible) ==
    map_as(register(map_as(register(SimpleDiBuilder_new, kindB, "B", 1, <<>>, 1 \in fallible),
                           "B", "X", 2, 2 \in fallible),
                    kindA, "A", 3, <<"X">>, 3 \in fallible),
           "A", "X", 4, 4 \in fallible)

\* provider 1 built from Program, the agents on the given OS threads
InitWith(kindsA, kindsB, fallible, thrs) ==
    /\ \E kindA \in kindsA : \E kindB \in kindsB :
          /\ prov = [p \in Providers |->
                        IF p = 1 THEN Program(kindA, kindB, fallible)
                        ELSE SimpleDiBuilder_new]
          /\ single = [p \in Providers |->
                        IF p = 1 THEN SingleInit(Program(kindA, kindB, fallible))
                        ELSE NoSingle]
    /\ phase = [p \in Providers |-> IF p = 1 THEN "built" ELSE "unused"]
    /\ nreg = [p \in Providers |-> IF p = 1 THEN 4 ELSE 0]
    /\ shardOf = [k \in Keys |-> 1]
    /\ thr \in thrs
    /\ InitRest

\* one step of a resolution in progress
Step(a) ==
    \/ ScopeGet(a)
    \/ FactoryDep(a)
    \/ \E fails \in BOOLEAN : FactoryDone(a, fails)
    \/ \E fails \in BOOLEAN : MapStep(a, fails)

\* Spec: A and B are singletones, two agents on two OS threads
Init == InitWith({"Singletone"}, {"Singletone"}, {1, 2, 3}, {[a \in Agents |-> a]})

Next ==
    \E a \in Agents :
        \/ \E ty \in Keys : CallResolve(a, 1, ty)
        \/ CallResolveAll(a, 1, "X")
        \/ Step(a)
        \/ Mutate(a)

Spec == Init /\ [][Next]_vars

\* SpecThread: A is thread-local, two agents on the same or on two OS threads
InitThread ==
    InitWith({"ThreadLocal"}, {"Singletone"}, {3}, {t \in [Agents -> Threads] : t[1] = 1})

NextThread ==
    \E a \in Agents :
        \/ CallResolve(a, 1, "A")
        \/ CallResolveAll(a, 1, "X")
        \/ Step(a)
        \/ Mutate(a)

SpecThread == InitThread /\ [][NextThread]_vars

\* SpecTransient: A is transient and holds the singletone B, two agents on
\* two OS threads
InitTransient ==
    InitWith({"Transient"}, {"Singletone"}, {3}, {[a \in Agents |-> a]})

NextTransient ==
    \E a \in Agents :
        \/ CallResolve(a, 1, "A")
        \/ CallResolveAll(a, 1, "X")
        \/ Step(a)
        \/ Mutate(a)

SpecTransient == InitTransient /\ [][NextTransient]_vars

\* SpecSeq: every scope kind for A, one agent that also enters and leaves
\* task scopes
InitSeq == InitWith(ScopeKinds, {"Singletone"}, {1, 2, 3}, {[a \in Agents |-> a]})

NextSeq ==
    \/ CallResolve(1, 1, "A")
    \/ CallResolveAll(1, 1, "X")
    \/ Step(1)
    \/ EnterTaskScope(1)
    \/ ExitTaskScope(1)

SpecSeq == InitSeq /\ [][NextSeq]_vars


\* SpecReg: one agent registers up to MaxRegs constructors (transient or
\* singletone, resolving nothing, never failing) and projections on provider 1
\* in any order, builds it, and resolves A and B from it
InitReg ==
    /\ prov = [p \in Providers |-> SimpleDiBuilder_new]
    /\ single = [p \in Providers |-> NoSingle]
    /\ phase = [p \in Providers |-> IF p = 1 THEN "building" ELSE "unused"]
    /\ nreg = [p \in Providers |-> 0]
    /\ shardOf = [k \in Keys |-> 1]
    /\ thr = [a \in Agents |-> a]
    /\ InitRest

NextReg ==
    \/ \E kind \in {"Transient", "Singletone"} : \E T \in ServiceKeys :
          Register(1, kind, T, <<>>, FALSE)
    \/ \E TService \in ServiceKeys : \E TDst \in ServiceKeys :
          MapAs(1, TService, TDst, FALSE)
    \/ Build(1)
    \/ \E ty \in ServiceKeys : CallResolve(1, 1, ty)
    \/ \E ty \in ServiceKeys : CallResolveAll(1, 1, ty)
    \/ ScopeGet(1)
    \/ FactoryDone(1, FALSE)
    \/ MapStep(1, FALSE)

SpecReg == InitReg /\ [][NextReg]_vars

\* ----------------------------------------------------------- 7. properties
Range(s) == {s[i] : i \in DOMAIN s}

\* a service with the services nested in it
RECURSIVE Sub(_)
Sub(v) == {v} \cup UNION {Sub(d) : d \in Range(v.deps)}

\* the services a top-level result handed out
Handed(r) == UNION {Sub(r.vals[i]) : i \in DOMAIN r.vals}

ScopeOf(p, T) == prov[p].scopes[T].scope
FidOf(p, T) == prov[p].services[T].factory.fid

\* the factory runs of T on provider p
Evts(p, T) ==
    {n \in DOMAIN events :
        events[n].what = "factory" /\ events[n].p = p /\ events[n].ty = T}
OkEvts(p, T) == {n \in Evts(p, T) : events[n].status = "ok"}

\* the services built by T's factory that callers of provider p received
HandedOf(p, T) ==
    UNION {{[r |-> r, v |-> v] : v \in {w \in Handed(r) : w.fid = FidOf(p, T)}} :
           r \in {x \in returned : x.p = p}}

\* C1: a singletone whose factory has not failed is built by at most one
\* factory run, made by the agent holding the type's lock while the producer
\* was still Pending, and every service of that type handed to any caller on
\* any thread has the construction and the cell of that one run.
C1_SingletonBuiltOnce ==
    \A p \in Providers : \A T \in Keys :
        (/\ phase[p] = "built"
         /\ ScopeOf(p, T) = "Singletone"
         /\ \A n \in Evts(p, T) : events[n].status \in {"running", "ok"})
        => /\ Cardinality(Evts(p, T)) <= 1
           /\ (single[p][T].st = "Pending") <=> (Evts(p, T) = {})
           /\ \A n \in Evts(p, T) :
                 events[n].status = "running" =>
                    /\ single[p][T].holder = events[n].agent
                    /\ single[p][T].st = "Empty"
           /\ \A h \in HandedOf(p, T) :
                 \E n \in OkEvts(p, T) :
                    /\ h.v.cid = events[n].cid
                    /\ h.v.cell = events[n].cid

\* two agents on two threads resolved A; the second saw the first's change
C1_Witness ==
    \E r1, r2 \in returned :
        /\ r1.agent # r2.agent /\ r1.thr # r2.thr
        /\ r1.ty = "A" /\ r2.ty = "A" /\ r1.ok /\ r2.ok
        /\ r1.op = "resolve" /\ r2.op = "resolve"
        /\ r2.seen = <<1>>
        /\ Cardinality(Evts(1, "A")) = 1

\* C6: whenever no resolve holds a singletone's lock its producer is Pending
\* or Created, never Empty, and no resolve faults on the Empty state.
C6_SingletonNeverEmpty ==
    /\ \A p \in Providers : \A T \in Keys :
          (phase[p] = "built" /\ ScopeOf(p, T) = "Singletone" /\ single[p][T].holder = 0)
          => single[p][T].st \in {"Pending", "Created"}
    /\ \A a \in Agents : ~panicked[a]

\* a singletone's factory returned Err, the producer stayed Empty with its lock
\* free, and a later resolve of the type ended in the fault
C6_EmptyFault ==
    \E a \in Agents : \E T \in Keys :
        /\ panicked[a]
        /\ ScopeOf(1, T) = "Singletone"
        /\ single[1][T].st = "Empty" /\ single[1][T].holder = 0
        /\ \E n \in Evts(1, T) : events[n].status = "err"

\* the source entry i of key ty resolves from
SrcOf(p, ty, i) == prov[p].mappings[ty][i].src_ty

\* the entries of completed calls that resolved from T
EntriesOf(p, T) ==
    UNION {{[r |-> r, i |-> i] : i \in {j \in DOMAIN r.inv : SrcOf(p, r.ty, j) = T}} :
           r \in {x \in returned : x.p = p /\ HasMapping(prov[p], x.ty)}}

\* the call of factory run n has completed
CallOver(n) ==
    \/ events[n].k < calls[events[n].agent]
    \/ Idle(events[n].agent)

\* C2: every resolve of a transient type runs the type's factory: each
\* resolved entry has a factory run of its own (n resolves, n runs), a
\* returned service is the construction of its own run, distinct from every
\* other one, with state no earlier caller changed; nothing is cached.
C2_TransientFresh ==
    \A p \in Providers : \A T \in Keys :
        (phase[p] = "built" /\ ScopeOf(p, T) = "Transient")
        => /\ single[p][T].st = "none"
           /\ \A t \in Threads : tls[t][T] = Absent
           /\ \A e \in EntriesOf(p, T) :
                 /\ e.r.inv[e.i] \in Evts(p, T)
                 /\ events[e.r.inv[e.i]].agent = e.r.agent
                 /\ events[e.r.inv[e.i]].k = e.r.k
                 /\ e.i \in DOMAIN e.r.vals =>
                       /\ events[e.r.inv[e.i]].status = "ok"
                       /\ e.r.vals[e.i].cid = events[e.r.inv[e.i]].cid
                       /\ e.r.vals[e.i].cell = events[e.r.inv[e.i]].cid
                       /\ e.r.seen[e.i] = 0
           /\ \A e1, e2 \in EntriesOf(p, T) :
                 e1 # e2 => e1.r.inv[e1.i] # e2.r.inv[e2.i]
           /\ \A n1, n2 \in OkEvts(p, T) :
                 n1 # n2 => events[n1].cid # events[n2].cid
           /\ \A n \in Evts(p, T) :
                 (events[n].status \in {"ok", "err"} /\ CallOver(n))
                 => \E e \in EntriesOf(p, T) : e.r.inv[e.i] = n

\* one agent resolved A, changed the service, and resolved A again: a second
\* construction, unchanged
C2_Witness ==
    \E r1, r2 \in returned :
        /\ r1.agent = r2.agent /\ r1.k < r2.k
        /\ r1.op = "resolve" /\ r2.op = "resolve"
        /\ r1.ty = "A" /\ r2.ty = "A" /\ r1.ok /\ r2.ok
        /\ ScopeOf(1, "A") = "Transient"
        /\ cell[r1.vals[1].cell] = 1
        /\ r2.seen = <<0>>
        /\ r1.vals[1].cid # r2.vals[1].cid
        /\ Cardinality(Evts(1, "A")) = 2

\* the factory runs of T made on thread t
ThreadEvts(p, T, t) == {n \in Evts(p, T) : events[n].thr = t}
OkThreadEvts(p, T, t) == {n \in OkEvts(p, T) : events[n].thr = t}

\* callers on one thread get one construction, callers on different threads
\* get different ones, each built by a run on the caller's own thread
ThreadSharing(p, T) ==
    /\ \A h1, h2 \in HandedOf(p, T) :
          IF h1.r.thr = h2.r.thr
          THEN h1.v.cid = h2.v.cid /\ h1.v.cell = h2.v.cell
          ELSE h1.v.cid # h2.v.cid /\ h1.v.cell # h2.v.cell
    /\ \A h \in HandedOf(p, T) :
          \E n \in OkThreadEvts(p, T, h.r.thr) :
             h.v.cid = events[n].cid /\ h.v.cell = events[n].cid

\* C3 (as stated): resolves of a thread-scoped type on one thread share one
\* instance, resolves on another thread get an independent one, and the
\* factory runs exactly once per distinct resolving thread.
C3_ThreadScopedOncePerThread ==
    \A p \in Providers : \A T \in Keys :
        (phase[p] = "built" /\ ScopeOf(p, T) = "ThreadLocal")
        => /\ ThreadSharing(p, T)
           /\ \A e \in EntriesOf(p, T) :
                 Cardinality(ThreadEvts(p, T, e.r.thr)) = 1

\* C3 (amended): resolves of a thread-scoped type on one thread share one
\* instance, resolves on another thread get an independent one, and on each
\* thread at most one factory run succeeds (exactly one where a resolve
\* returned the service); the factory runs again on a thread only after a
\* run on that thread failed, and a failed run leaves nothing cached.
C3_ThreadScopedOneSuccessPerThread ==
    \A p \in Providers : \A T \in Keys :
        (phase[p] = "built" /\ ScopeOf(p, T) = "ThreadLocal")
        => /\ ThreadSharing(p, T)
           /\ \A t \in Threads :
                 /\ Cardinality(OkThreadEvts(p, T, t)) <= 1
                 /\ (tls[t][T].st = "Created") <=> (OkThreadEvts(p, T, t) # {})
                 /\ \A n1, n2 \in ThreadEvts(p, T, t) :
                       n1 < n2 => events[n1].status = "err"
           /\ \A e \in EntriesOf(p, T) :
                 \/ Cardinality(ThreadEvts(p, T, e.r.thr)) = 1
                 \/ \E n \in ThreadEvts(p, T, e.r.thr) : events[n].status = "err"

\* two agents on one thread resolved A; one run, and the second caller saw
\* the first one's change
C3_Witness ==
    \E r1, r2 \in returned :
        /\ r1.agent # r2.agent /\ r1.thr = r2.thr
        /\ r1.op = "resolve" /\ r2.op = "resolve"
        /\ r1.ty = "A" /\ r2.ty = "A" /\ r1.ok /\ r2.ok
        /\ ScopeOf(1, "A") = "ThreadLocal"
        /\ r2.seen = <<1>>
        /\ r1.vals[1].cid = r2.vals[1].cid
        /\ Cardinality(Evts(1, "A")) = 1

\* C4: inside one task scope every resolve of a task-scoped type returns the
\* one construction cached in that scope's context, built by a factory run
\* made inside the scope; a resolve inside another scope returns a different
\* construction from a factory run of its own.
C4_TaskScopedPerScope ==
    \A p \in Providers : \A T \in Keys :
        (phase[p] = "built" /\ ScopeOf(p, T) = "TaskLocal")
        => /\ \A h \in HandedOf(p, T) :
                 /\ h.r.scope # 0
                 /\ \E n \in OkEvts(p, T) :
                       /\ events[n].scope = h.r.scope
                       /\ events[n].agent = h.r.agent
                       /\ h.v.cid = events[n].cid
                       /\ h.v.cell = events[n].cid
           /\ \A h1, h2 \in HandedOf(p, T) :
                 IF h1.r.scope = h2.r.scope
                 THEN h1.v.cid = h2.v.cid /\ h1.v.cell = h2.v.cell
                 ELSE h1.v.cid # h2.v.cid /\ h1.v.cell # h2.v.cell
           /\ \A n1, n2 \in OkEvts(p, T) :
                 n1 # n2 => events[n1].scope # events[n2].scope
           /\ \A a \in Agents : \A i \in DOMAIN task[a] :
                 (task[a][i].inst[T].st = "Created")
                 <=> (\E n \in OkEvts(p, T) : events[n].scope = task[a][i].id)

\* A was resolved in one scope and again in another one: two runs, two
\* constructions
C4_Witness ==
    \E r1, r2 \in returned :
        /\ r1.op = "resolve" /\ r2.op = "resolve"
        /\ r1.ty = "A" /\ r2.ty = "A" /\ r1.ok /\ r2.ok
        /\ ScopeOf(1, "A") = "TaskLocal"
        /\ r1.scope # 0 /\ r2.scope # 0 /\ r1.scope # r2.scope
        /\ r1.vals[1].cid # r2.vals[1].cid
        /\ Cardinality(OkEvts(1, "A")) = 2

\* C5: a resolve of a task-scoped type outside every task scope returns
\* TaskLocalContextNotInitialized carrying the type, its factory has not been
\* run outside a scope, and no cache outside a scope holds the type.
C5_TaskScopedNeedsScope ==
    \A p \in Providers : \A T \in Keys :
        (phase[p] = "built" /\ ScopeOf(p, T) = "TaskLocal")
        => /\ \A e \in EntriesOf(p, T) :
                 e.r.scope = 0 =>
                    /\ ~e.r.ok
                    /\ e.r.vals = <<>>
                    /\ e.r.err = ServiceBuildError("TaskLocalContextNotInitialized",
                                                   T, NoKey, 0)
                    /\ e.r.inv[e.i] = 0
           /\ \A n \in Evts(p, T) : events[n].scope # 0
           /\ single[p][T].st = "none"
           /\ \A t \in Threads : tls[t][T] = Absent

\* A is task-scoped and was resolved outside every scope
C5_Witness ==
    \E r \in returned :
        /\ r.op = "resolve" /\ r.ty = "A" /\ r.scope = 0
        /\ ScopeOf(1, "A") = "TaskLocal"
        /\ ~r.ok /\ r.err.kind = "TaskLocalContextNotInitialized"
        /\ Evts(1, "A") = {}
        /\ task[r.agent] = <<>>

\* the instances the caches hold
Cached ==
    UNION {{single[p][T].instance.service :
               T \in {k \in Keys : single[p][k].st = "Created"}} :
           p \in {q \in Providers : phase[q] = "built"}}
    \cup UNION {{tls[t][T].instance.service : T \in {k \in Keys : tls[t][k].st = "Created"}} :
                t \in Threads}
    \cup UNION {UNION {{task[a][i].inst[T].instance.service :
                           T \in {k \in Keys : task[a][i].inst[k].st = "Created"}} :
                       i \in DOMAIN task[a]} :
                a \in Agents}

\* v and every service nested in it is the complete output of a factory run
\* that returned Ok
Complete(p, v) ==
    \A w \in Sub(v) :
        \E n \in DOMAIN events :
            /\ events[n].what = "factory"
            /\ events[n].p = p /\ events[n].status = "ok"
            /\ events[n].fid = w.fid /\ events[n].cid = w.cid
            /\ Len(w.deps) = Len(prov[p].services[events[n].ty].factory.deps)

\* the factory runs and failed mapper runs of the k-th call of agent a
CallEvts(a, k) == {n \in DOMAIN events : events[n].agent = a /\ events[n].k = k}

\* C7: an error returned by a factory or converter anywhere in a resolve chain
\* is the result of the whole chain: every enclosing factory run returns that
\* same error, the top-level call returns it, no value of an enclosing factory
\* is returned, and every cached or returned service is the complete output of
\* successful factory runs.
C7_FailureShortCircuits ==
    /\ \A v \in Cached : Complete(1, v)
    /\ \A r \in returned :
          /\ \A i \in DOMAIN r.vals : Complete(r.p, r.vals[i])
          /\ r.ok => \A n \in CallEvts(r.agent, r.k) : events[n].status = "ok"
          /\ \A n \in CallEvts(r.agent, r.k) :
                events[n].status = "err" => (~r.ok /\ r.vals = <<>> /\ r.err = events[n].err)
    /\ \A n \in DOMAIN events :
          (events[n].status = "err" /\ ~CallOver(n))
          => LET f == Top(stack[events[n].agent]) IN
             \/ f.derr = events[n].err
             \/ (~f.res.ok /\ f.res.err = events[n].err)

\* B's factory failed inside A's factory: A's run and the call returned B's
\* error and A's thread cache kept nothing
C7_Witness ==
    \E r \in returned :
        /\ r.op = "resolve" /\ r.ty = "A" /\ ~r.ok
        /\ ScopeOf(1, "A") = "ThreadLocal"
        /\ r.err = ServiceBuildError("Custom", "B", NoKey, 1)
        /\ \E n \in Evts(1, "A") : events[n].status = "err" /\ events[n].err = r.err
        /\ \E n \in Evts(1, "B") : events[n].status = "err" /\ events[n].err = r.err
        /\ tls[r.thr]["A"].st = "Pending"

\* the completed top-level calls of one operation on a key with a constructor
CallsOf(op) ==
    {r \in returned : r.op = op /\ prov[r.p].services[r.ty] # NoService}

\* v is what entry m yields: m's converter applied to a service built by the
\* registered factory of m's source key
YieldOf(p, m, v) ==
    /\ v.fid = FidOf(p, m.src_ty)
    /\ v.dyn = IF m.mapper.kind = "id" THEN m.src_ty ELSE m.dest_ty
    /\ v.via = IF m.mapper.kind = "id" THEN <<>> ELSE <<m.mapper.mid>>
    /\ \E n \in OkEvts(p, m.src_ty) : v.cid = events[n].cid /\ v.cell = events[n].cid

\* C8 (as stated): once a constructor is registered for T, resolve(T)
\* succeeds with no explicit mapping registration and returns the output of
\* T's own factory, also when projections of other types onto T are registered.
C8_ResolveSelfIsOwnFactory ==
    \A r \in CallsOf("resolve") :
        /\ r.ok
        /\ r.vals[1].dyn = r.ty
        /\ r.vals[1].fid = FidOf(r.p, r.ty)
        /\ r.vals[1].via = <<>>

\* C8 (amended): once a constructor is registered for T, resolve(T) succeeds
\* with no explicit mapping registration; it returns the output of T's own
\* factory, also when projections of other types onto T are registered,
\* unless a projection onto T was registered before T's first constructor, and
\* then it returns that earliest projection's output.
C8_ResolveSelfUnlessEarlierProjection ==
    \A r \in CallsOf("resolve") :
        LET m == prov[r.p].mappings[r.ty][1] IN
        /\ HasMapping(prov[r.p], r.ty)
        /\ \E i \in DOMAIN prov[r.p].mappings[r.ty] :
              /\ prov[r.p].mappings[r.ty][i].src_ty = r.ty
              /\ prov[r.p].mappings[r.ty][i].mapper.kind = "id"
        /\ r.ok
        /\ r.vals[1].dyn = r.ty
        /\ YieldOf(r.p, m, r.vals[1])
        /\ m.src_ty = r.ty =>
              /\ m.mapper.kind = "id"
              /\ r.vals[1].fid = FidOf(r.p, r.ty)
              /\ r.vals[1].via = <<>>

\* A's constructor was registered first, a projection of B onto A later, and
\* resolve(A) returned the output of A's own factory
C8_Witness ==
    \E r \in CallsOf("resolve") :
        LET list == prov[r.p].mappings[r.ty] IN
        /\ r.ty = "A" /\ r.ok
        /\ Len(list) >= 2
        /\ list[1].src_ty = "A" /\ list[2].src_ty = "B"
        /\ r.vals[1].fid = FidOf(r.p, "A")
        /\ r.vals[1].via = <<>>

\* C9: the entries under a key stand in registration order, and a resolve_all
\* of the key returns one value per entry, in that order, the i-th being the
\* i-th entry's converter applied to the service its source key resolves to
\* through the scope layer (a factory run of the call for a transient source).
C9_ResolveAllInOrder ==
    /\ \A p \in Providers : \A ty \in Keys :
          \A i, j \in DOMAIN prov[p].mappings[ty] :
             i < j => prov[p].mappings[ty][i].mapper.mid < prov[p].mappings[ty][j].mapper.mid
    /\ \A r \in returned :
          (r.op = "resolve_all" /\ r.ok)
          => LET list == prov[r.p].mappings[r.ty] IN
             /\ Len(r.vals) = Len(list)
             /\ Len(r.inv) = Len(list)
             /\ \A i \in DOMAIN list :
                   /\ YieldOf(r.p, list[i], r.vals[i])
                   /\ r.inv[i] # 0 =>
                         /\ r.inv[i] \in Evts(r.p, list[i].src_ty)
                         /\ r.vals[i].cid = events[r.inv[i]].cid
                   /\ ScopeOf(r.p, list[i].src_ty) = "Transient" => r.inv[i] # 0

\* resolve_all(A) returned B's projection and then A itself, as registered
C9_Witness ==
    \E r \in returned :
        LET list == prov[r.p].mappings[r.ty] IN
        /\ r.op = "resolve_all" /\ r.ty = "A" /\ r.ok
        /\ Len(list) = 2 /\ Len(r.vals) = 2
        /\ list[1].src_ty = "B" /\ list[2].src_ty = "A"
        /\ r.vals[1].fid = FidOf(r.p, "B") /\ r.vals[1].via # <<>>
        /\ r.vals[2].fid = FidOf(r.p, "A") /\ r.vals[2].via = <<>>

\* what two services have in common when deterministic factories built them
SameOutput(v, w) == v.dyn = w.dyn /\ v.fid = w.fid /\ v.via = w.via /\ v.deps = w.deps

\* C10: resolve of a key resolves the source of the earliest entry under the
\* key and applies that entry's converter; its result is the same output as
\* the first element of a resolve_all of the key (the same construction when
\* the source is a singletone), and the call runs no factory but that source's.
C10_ResolveUsesFirstEntry ==
    \A r \in returned :
        (r.op = "resolve" /\ HasMapping(prov[r.p], r.ty))
        => LET m == prov[r.p].mappings[r.ty][1] IN
           /\ r.inv = <<r.inv[1]>>
           /\ \A n \in CallEvts(r.agent, r.k) : n \in Evts(r.p, m.src_ty)
           /\ r.ok => YieldOf(r.p, m, r.vals[1])
           /\ \A q \in returned :
                 (q.op = "resolve_all" /\ q.p = r.p /\ q.ty = r.ty /\ q.ok /\ r.ok)
                 => /\ SameOutput(r.vals[1], q.vals[1])
                    /\ ScopeOf(r.p, m.src_ty) = "Singletone" =>
                          r.vals[1].cid = q.vals[1].cid

\* A has two entries from different transient sources; resolve(A) returned
\* the first one's output, as resolve_all(A) did, and ran one factory only
C10_Witness ==
    \E r, q \in returned :
        LET list == prov[r.p].mappings[r.ty] IN
        /\ r.op = "resolve" /\ q.op = "resolve_all"
        /\ r.ty = "A" /\ q.ty = "A" /\ r.ok /\ q.ok
        /\ Len(list) = 2 /\ list[1].src_ty # list[2].src_ty
        /\ ScopeOf(r.p, list[2].src_ty) = "Transient"
        /\ SameOutput(r.vals[1], q.vals[1])
        /\ Cardinality(CallEvts(r.agent, r.k)) = 1
        /\ Cardinality(CallEvts(q.agent, q.k)) = 2


\* ------------------------------- 8. further specifications and properties
\* the scoped policies
ScopedKinds == {"Singletone", "ThreadLocal", "TaskLocal"}

\* a builder program with one constructor, A, that never fails and resolves
\* nothing, projected onto the keys X and B
ProgramCaps(kind) ==
    map_as(map_as(register(SimpleDiBuilder_new, kind, "A", 1, <<>>, FALSE),
                  "A", "X", 2, FALSE),
           "A", "B", 3, FALSE)

\* SpecCaps: one agent resolves A, X and B from ProgramCaps under each scoped
\* policy, changes what it got, and enters and leaves task scopes
InitCaps ==
    /\ \E kind \in ScopedKinds :
          /\ prov = [p \in Providers |->
                        IF p = 1 THEN ProgramCaps(kind) ELSE SimpleDiBuilder_new]
          /\ single = [p \in Providers |->
                        IF p = 1 THEN SingleInit(ProgramCaps(kind)) ELSE NoSingle]
    /\ phase = [p \in Providers |-> IF p = 1 THEN "built" ELSE "unused"]
    /\ nreg = [p \in Providers |-> IF p = 1 THEN 3 ELSE 0]
    /\ shardOf = [k \in Keys |-> 1]
    /\ thr = [a \in Agents |-> a]
    /\ InitRest

NextCaps ==
    \/ \E ty \in Keys : CallResolve(1, 1, ty)
    \/ ScopeGet(1)
    \/ FactoryDone(1, FALSE)
    \/ MapStep(1, FALSE)
    \/ Mutate(1)
    \/ EnterTaskScope(1)
    \/ ExitTaskScope(1)

SpecCaps == InitCaps /\ [][NextCaps]_vars

\* the scope instance a result of a type under policy kind was resolved in
\* (0: outside every instance)
InstanceOf(kind, r) ==
    CASE kind = "Singletone" -> 1
      [] kind = "ThreadLocal" -> r.thr
      [] kind = "TaskLocal" -> r.scope
      [] OTHER -> 0

\* the results of provider p whose first entry resolves from T
ResolvedFrom(p, T) ==
    {r \in returned :
        /\ r.p = p /\ r.op = "resolve" /\ HasMapping(prov[p], r.ty)
        /\ SrcOf(p, r.ty, 1) = T}

\* the factory runs of T made in scope instance i
InstanceEvts(p, T, i) ==
    {n \in Evts(p, T) :
        i = CASE ScopeOf(p, T) = "Singletone" -> 1
              [] ScopeOf(p, T) = "ThreadLocal" -> events[n].thr
              [] ScopeOf(p, T) = "TaskLocal" -> events[n].scope
              [] OTHER -> 0}

\* C11: for a constructor under a scoped policy with projections onto other
\* keys, every resolve of the constructor's key or of a projected key inside
\* one scope instance succeeds, the instance has one run of the constructor's
\* factory, and every result is the entry's projection of that one
\* construction and points to its state.
C11_CapabilitiesShareConstruction ==
    \A p \in Providers : \A T \in Keys :
        (phase[p] = "built" /\ ScopeOf(p, T) \in ScopedKinds)
        => \A r \in ResolvedFrom(p, T) :
              LET i == InstanceOf(ScopeOf(p, T), r) IN
              i # 0 =>
                 /\ r.ok
                 /\ Cardinality(InstanceEvts(p, T, i)) = 1
                 /\ YieldOf(p, prov[p].mappings[r.ty][1], r.vals[1])
                 /\ \A n \in InstanceEvts(p, T, i) :
                       /\ events[n].status = "ok"
                       /\ r.vals[1].cid = events[n].cid
                       /\ r.vals[1].cell = events[n].cid

\* A was resolved as X and changed through that value; a later resolve of A
\* itself saw the change, from the one factory run
C11_Witness ==
    \E r1, r2 \in ResolvedFrom(1, "A") :
        /\ r1.ty = "X" /\ r2.ty = "A" /\ r1.k < r2.k
        /\ r1.ok /\ r2.ok
        /\ r1.vals[1].via = <<2>> /\ r2.vals[1].via = <<>>
        /\ r2.seen = <<1>>
        /\ Cardinality(Evts(1, "A")) = 1

\* a builder program with the one constructor A, which never fails and
\* resolves nothing
ProgramOne(kind) == register(SimpleDiBuilder_new, kind, "A", 1, <<>>, FALSE)

\* SpecTwo: two providers, each built from its own builder running
\* ProgramOne with a thread-local or task-local A; one agent on one OS thread
\* resolves A through either provider, inside and outside task scopes
InitTwo ==
    /\ \E kind \in {"ThreadLocal", "TaskLocal"} :
          /\ prov = [p \in Providers |-> ProgramOne(kind)]
          /\ single = [p \in Providers |-> SingleInit(ProgramOne(kind))]
    /\ phase = [p \in Providers |-> "built"]
    /\ nreg = [p \in Providers |-> 1]
    /\ shardOf = [k \in Keys |-> 1]
    /\ thr = [a \in Agents |-> a]
    /\ InitRest

NextTwo ==
    \/ \E p \in Providers : CallResolve(1, p, "A")
    \/ ScopeGet(1)
    \/ FactoryDone(1, FALSE)
    \/ MapStep(1, FALSE)
    \/ EnterTaskScope(1)
    \/ ExitTaskScope(1)

SpecTwo == InitTwo /\ [][NextTwo]_vars

\* C12: the cache of a thread-local or task-local type belongs to one
\* provider: a service resolved through a provider on a thread (in a task
\* scope) is the construction of a run of that provider's own factory on that
\* thread (in that scope), and each provider resolved there has one such run.
C12_CachePerProvider ==
    \A p \in Providers : \A T \in Keys :
        (phase[p] = "built" /\ ScopeOf(p, T) \in {"ThreadLocal", "TaskLocal"})
        => \A r \in ResolvedFrom(p, T) :
              LET i == InstanceOf(ScopeOf(p, T), r) IN
              (i # 0 /\ r.ok) =>
                 /\ Cardinality(InstanceEvts(p, T, i)) = 1
                 /\ \E n \in InstanceEvts(p, T, i) : r.vals[1].cid = events[n].cid

\* A was resolved through provider 1 and then through provider 2 on the same
\* thread: provider 2 returned the construction of provider 1's factory and
\* its own factory never ran
C12_SharedAcrossProviders ==
    \E r1, r2 \in returned :
        /\ r1.p = 1 /\ r2.p = 2 /\ r1.ok /\ r2.ok
        /\ r1.ty = "A" /\ r2.ty = "A"
        /\ r1.thr = r2.thr /\ r1.scope = r2.scope
        /\ r1.vals[1].cid = r2.vals[1].cid
        /\ Evts(2, "A") = {}
        /\ \E n \in Evts(1, "A") : events[n].cid = r2.vals[1].cid

\* SpecNest: one agent resolves A and X from Program under every pair of
\* scope policies for A and B, with no closure failing; A's factory resolves
\* X, that is B. The DashMap shard B's key hashes to (ahash with random
\* seeds) is the same as A's or another one.
InitNest ==
    /\ \E kindA \in ScopeKinds : \E kindB \in ScopeKinds :
          /\ prov = [p \in Providers |->
                        IF p = 1 THEN Program(kindA, kindB, {})
                        ELSE SimpleDiBuilder_new]
          /\ single = [p \in Providers |->
                        IF p = 1 THEN SingleInit(Program(kindA, kindB, {}))
                        ELSE NoSingle]
    /\ phase = [p \in Providers |-> IF p = 1 THEN "built" ELSE "unused"]
    /\ nreg = [p \in Providers |-> IF p = 1 THEN 4 ELSE 0]
    /\ shardOf \in {f \in [Keys -> Shards] : f["A"] = 1 /\ f["X"] = 1}
    /\ thr = [a \in Agents |-> a]
    /\ InitRest

NextNest ==
    \/ CallResolve(1, 1, "A")
    \/ CallResolve(1, 1, "X")
    \/ ScopeGet(1)
    \/ FactoryDep(1)
    \/ FactoryDone(1, FALSE)
    \/ MapStep(1, FALSE)
    \/ EnterTaskScope(1)
    \/ ExitTaskScope(1)

SpecNest == InitNest /\ [][NextNest]_vars

\* C13: resolution is re-entrant: a resolve in progress, also one nested in a
\* running factory that holds the lock of its own scoped type, always has a
\* next step, so it returns and lets the outer factory continue.
C13_Reentrant ==
    \A a \in Agents : stack[a] # <<>> => ENABLED Step(a)

\* A and B are both thread-local or both task-local and hash to one shard:
\* A's factory runs under the shard's read lock and its nested resolve of B
\* waits for the shard's write lock
C13_NestedResolveBlocked ==
    /\ Len(stack[1]) = 2
    /\ stack[1][1].pc = "factory" /\ stack[1][1].src = "A"
    /\ stack[1][2].pc = "scope"
    /\ ScopeOf(1, "A") = ScopeOf(1, "B")
    /\ ScopeOf(1, "A") \in {"ThreadLocal", "TaskLocal"}
    /\ shardOf["A"] = shardOf["B"]
    /\ ~ENABLED Step(1)

\* SpecOuter: the transient A holds the singletone B, resolved as X in A's
\* factory; no closure fails. Two agents on two OS threads resolve A and all
\* of X and change the singletone through the outer values they got.
InitOuter == InitWith({"Transient"}, {"Singletone"}, {}, {[a \in Agents |-> a]})

NextOuter ==
    \E a \in Agents :
        \/ CallResolve(a, 1, "A")
        \/ CallResolveAll(a, 1, "X")
        \/ ScopeGet(a)
        \/ FactoryDep(a)
        \/ FactoryDone(a, FALSE)
        \/ MapStep(a, FALSE)
        \/ MutateInner(a)

SpecOuter == InitOuter /\ [][NextOuter]_vars

\* the returned services built by T's factory, with the record and the
\* position each was returned at
OutersOf(p, T) ==
    UNION {{[r |-> r, i |-> i] : i \in {j \in DOMAIN r.vals : r.vals[j].fid = FidOf(p, T)}} :
           r \in {x \in returned : x.p = p}}

\* C14: when a transient type's factory resolves a singletone, every resolve
\* of the transient type succeeds with an outer value built by a factory run
\* of its own, while the singletone has one factory run: the service nested
\* in every outer value, also in a projected one, is that one construction
\* and points to its state, so what a caller sees in it is the state as
\* changed so far.
C14_TransientHoldsSingleton ==
    \A p \in Providers : \A T \in Keys :
        (phase[p] = "built" /\ ScopeOf(p, T) = "Transient")
        => /\ \A e \in EntriesOf(p, T) : e.r.ok
           /\ \A o1, o2 \in OutersOf(p, T) :
                 o1 # o2 => o1.r.vals[o1.i].cid # o2.r.vals[o2.i].cid
           /\ \A o \in OutersOf(p, T) :
                 LET v == o.r.vals[o.i]
                     deps == prov[p].services[T].factory.deps
                 IN
                 /\ o.r.inv[o.i] \in OkEvts(p, T)
                 /\ events[o.r.inv[o.i]].cid = v.cid
                 /\ Len(v.deps) = Len(deps)
                 /\ \A j \in DOMAIN deps :
                       LET S == SrcOf(p, deps[j], 1) IN
                       ScopeOf(p, S) = "Singletone" =>
                          /\ Cardinality(Evts(p, S)) = 1
                          /\ \A n \in Evts(p, S) :
                                /\ v.deps[j].cid = events[n].cid
                                /\ v.deps[j].cell = events[n].cid
                          /\ o.r.seenDeps[o.i][j] = 1 => cell[v.deps[j].cell] = 1

\* A was resolved and the singletone changed through it; the projection of a
\* second, new A onto X showed the change, with one run of B's factory
C14_Witness ==
    \E r1, r2 \in returned :
        /\ r1.op = "resolve" /\ r1.ty = "A" /\ r1.ok
        /\ r2.op = "resolve_all" /\ r2.ty = "X" /\ r2.ok
        /\ r1.agent # r2.agent
        /\ r1.seenDeps = <<<<0>>>>
        /\ r2.seenDeps[2] = <<1>>
        /\ r2.vals[2].via = <<4>>
        /\ r2.vals[2].cid # r1.vals[1].cid
        /\ r2.vals[2].deps[1].cid = r1.vals[1].deps[1].cid
        /\ Cardinality(Evts(1, "B")) = 1
        /\ Cardinality(Evts(1, "A")) = 2

\* C15: once build has consumed the builder, no step (no registration, no
\* resolve or resolve_all call, successful or failing, and no step of one)
\* changes the provider's registries: the constructors, the scope policy of
\* each key and the ordered mapping list of each destination stay as build
\* found them, and the provider stays built.
C15_RegistriesFrozen ==
    [][\A p \in Providers :
          phase[p] = "built" =>
              /\ phase'[p] = "built"
              /\ prov'[p] = prov[p]
              /\ nreg'[p] = nreg[p]]_vars

\* a built provider with room for another registration, that has answered one
\* call with a cached singletone and failed another
C15_Witness ==
    /\ phase[1] = "built"
    /\ nreg[1] < MaxRegs
    /\ \E r \in returned : r.p = 1 /\ r.ok
    /\ \E r \in returned : r.p = 1 /\ ~r.ok
    /\ \E T \in Keys : single[1][T].st = "Created"

\* SpecLazy: a builder on which A is registered under a scoped policy with a
\* factory that may fail (registered again, the later registration replaces
\* the constructor and the policy), then built; one agent resolves A, inside
\* and outside task scopes
InitLazy ==
    /\ prov = [p \in Providers |-> SimpleDiBuilder_new]
    /\ single = [p \in Providers |-> NoSingle]
    /\ phase = [p \in Providers |-> IF p = 1 THEN "building" ELSE "unused"]
    /\ nreg = [p \in Providers |-> 0]
    /\ shardOf = [k \in Keys |-> 1]
    /\ thr = [a \in Agents |-> a]
    /\ InitRest

NextLazy ==
    \/ \E kind \in ScopedKinds : Register(1, kind, "A", <<>>, TRUE)
    \/ Build(1)
    \/ CallResolve(1, 1, "A")
    \/ ScopeGet(1)
    \/ \E fails \in BOOLEAN : FactoryDone(1, fails)
    \/ MapStep(1, FALSE)
    \/ EnterTaskScope(1)
    \/ ExitTaskScope(1)

SpecLazy == InitLazy /\ [][NextLazy]_vars

\* the scope instances of policy kind
Instances(kind) ==
    CASE kind = "Singletone" -> {1}
      [] kind = "ThreadLocal" -> Threads
      [] kind = "TaskLocal" -> 1..nscope
      [] OTHER -> {}

\* registration and build run no factory and create no instance: every
\* factory run belongs to a resolve call on a built provider
NothingBuiltEarly ==
    /\ \A p \in Providers :
          phase[p] = "building" =>
             /\ \A n \in DOMAIN events : events[n].p # p
             /\ \A T \in Keys : single[p][T].st = "none"
    /\ (\A p \in Providers : phase[p] # "built") =>
          /\ events = <<>> /\ cell = <<>>
          /\ \A t \in Threads : \A T \in Keys : tls[t][T] = Absent
    /\ \A n \in DOMAIN events :
          /\ events[n].k >= 1 /\ events[n].k <= calls[events[n].agent]
          /\ phase[events[n].p] = "built"

InitDeep ==
    /\ \E kind \in ScopedKinds :
          /\ prov = [p \in Providers |->
                        IF p = 1 THEN ProgramOne(kind) ELSE SimpleDiBuilder_new]
          /\ single = [p \in Providers |->
                        IF p = 1 THEN SingleInit(ProgramOne(kind)) ELSE NoSingle]
    /\ phase = [p \in Providers |-> IF p = 1 THEN "built" ELSE "unused"]
    /\ nreg = [p \in Providers |-> IF p = 1 THEN 1 ELSE 0]
    /\ shardOf = [k \in Keys |-> 1]
    /\ thr = [a \in Agents |-> a]
    /\ deep \in {{}, {"A"}}
    /\ dead = {}
    /\ SERVICE_PROVIDER = 0
    /\ regLog = [p \in Providers |-> [k \in Keys |-> NoReg]]
    /\ erased = NoErased
    /\ tls = [t \in Threads |-> [k \in Keys |-> Absent]]
    /\ task = [a \in Agents |-> <<>>]
    /\ stack = [a \in Agents |-> <<>>]
    /\ panicked = [a \in Agents |-> FALSE]
    /\ calls = [a \in Agents |-> 0]
    /\ nscope = 0
    /\ entered = [a \in Agents |-> 0]
    /\ cell = <<>>
    /\ events = <<>>
    /\ returned = {}

NextDeep ==
    \/ CallResolve(1, 1, "A")
    \/ ScopeGet(1)
    \/ FactoryDone(1, FALSE)
    \/ MapStep(1, FALSE)
    \/ Mutate(1)
    \/ EnterTaskScope(1)
    \/ ExitTaskScope(1)

SpecDeep == InitDeep /\ [][NextDeep]_vars

\* C17: the instance a scoped producer caches is the value its factory run
\* constructed (that run's construction, in that run's state) and no resolve
\* replaces it; a handed-out copy of a type with a deep copy has a state of
\* its own, so whatever callers did to earlier copies the cached instance
\* still has the factory's original output and every resolve returns a value
\* equal to it.
C17_RepeatableDuplication ==
    /\ \A v \in Cached :
          /\ v.cell = v.cid
          /\ \E n \in OkEvts(1, v.dyn) : events[n].cid = v.cid
          /\ v.dyn \in deep => cell[v.cell] = 0
    /\ \A r \in returned : \A i \in DOMAIN r.vals :
          r.vals[i].dyn \in deep =>
             /\ r.seen[i] = 0
             /\ \A v \in Cached : v.cell # r.vals[i].cell
             /\ \A q \in returned : \A j \in DOMAIN q.vals :
                   q.vals[j].cell = r.vals[i].cell => (q = r /\ j = i)
             /\ \E n \in OkEvts(r.p, r.vals[i].dyn) :
                   /\ events[n].cid = r.vals[i].cid
                   /\ events[n].fid = r.vals[i].fid
             /\ \A v \in Cached :
                   v.cid = r.vals[i].cid => SameOutput(v, r.vals[i])

\* a caller changed the deep copy it was handed, and a later resolve in the
\* same scope instance returned the cached construction unchanged
C17_Witness ==
    \E r1, r2 \in returned :
        /\ deep = {"A"}
        /\ r1.ok /\ r2.ok /\ r1.ty = "A" /\ r2.ty = "A"
        /\ r1.vals[1].cid = r2.vals[1].cid
        /\ r1.vals[1].cell # r2.vals[1].cell
        /\ cell[r1.vals[1].cell] = 1
        /\ r2.inv[1] = 0 /\ r2.seen[1] = 0

\* SpecBox: a caller wraps a service of any type in a plain or a sync erased
\* container and asks for it back under up to MaxUnbox types
InitBox ==
    /\ prov = [p \in Providers |-> SimpleDiBuilder_new]
    /\ single = [p \in Providers |-> NoSingle]
    /\ phase = [p \in Providers |-> "unused"]
    /\ nreg = [p \in Providers |-> 0]
    /\ shardOf = [k \in Keys |-> 1]
    /\ thr = [a \in Agents |-> a]
    /\ InitRest

NextBox ==
    \/ \E kind \in {"Boxed", "SyncBoxed"} : \E v \in BoxValues : BoxNew(kind, v)
    \/ \E U \in Keys : Unbox(U)

SpecBox == InitBox /\ [][NextBox]_vars

\* C18: a plain or sync erased container made from a value v of type T
\* reports T; unbox as T returns v and consumes the container; unbox as any
\* other type fails and gives back the container as it was: of the same kind,
\* still reporting T, still holding v and still unboxable as T.
C18_ErasedRoundTrip ==
    erased.made # NoBox =>
        LET T == erased.made.ty
            v == erased.made.service
            hits == {i \in DOMAIN erased.asked : erased.asked[i] = T}
        IN
        /\ T = v.dyn
        /\ erased.made.kind \in {"Boxed", "SyncBoxed"}
        /\ IF hits = {}
           THEN /\ erased.box = erased.made
                /\ erased.box.ty = T
                /\ erased.got = NoVal
                /\ unbox(erased.box, T).ok
                /\ unbox(erased.box, T).val = v
                /\ \A U \in Keys \ {T} :
                      ~unbox(erased.box, U).ok /\ unbox(erased.box, U).back = erased.made
           ELSE /\ hits = {Len(erased.asked)}
                /\ erased.got = v
                /\ erased.box = NoBox

\* a sync container was asked for another type first and then gave its value
\* back under its own type
C18_Witness ==
    /\ erased.made.kind = "SyncBoxed"
    /\ Len(erased.asked) = 2
    /\ erased.asked[1] # erased.made.ty
    /\ erased.asked[2] = erased.made.ty
    /\ erased.got = erased.made.service
    /\ erased.got # NoVal

\* a builder program with the constructor A and its projection onto X: X has
\* a mapping entry and no scope entry, B has neither
ProgramScope(kind) ==
    map_as(register(SimpleDiBuilder_new, kind, "A", 1, <<>>, FALSE), "A", "X", 2, FALSE)

\* SpecScope: one agent calls resolve and ScopeLayer::get on every key of a
\* provider built from ProgramScope
InitScope ==
    /\ \E kind \in ScopeKinds :
          /\ prov = [p \in Providers |->
                        IF p = 1 THEN ProgramScope(kind) ELSE SimpleDiBuilder_new]
          /\ single = [p \in Providers |->
                        IF p = 1 THEN SingleInit(ProgramScope(kind)) ELSE NoSingle]
    /\ phase = [p \in Providers |-> IF p = 1 THEN "built" ELSE "unused"]
    /\ nreg = [p \in Providers |-> IF p = 1 THEN 2 ELSE 0]
    /\ shardOf = [k \in Keys |-> 1]
    /\ thr = [a \in Agents |-> a]
    /\ InitRest

NextScope ==
    \/ \E ty \in Keys : CallScopeGet(1, 1, ty)
    \/ \E ty \in Keys : CallResolve(1, 1, ty)
    \/ ScopeGet(1)
    \/ FactoryDone(1, FALSE)
    \/ MapStep(1, FALSE)

SpecScope == InitScope /\ [][NextScope]_vars

\* C19 (as stated): ScopeLayer::get of a key with no scope entry returns the
\* error ScopeNotFound naming the key, which is not the missing-mapping
\* error, and runs no factory.
C19_MissingScopeIsScopeNotFound ==
    \A r \in returned :
        (r.op = "get" /\ ScopeOf(r.p, r.ty) = NoScope)
        => /\ ~r.ok
           /\ r.err = ServiceBuildError("ScopeNotFound", r.ty, NoKey, 0)
           /\ r.err.kind # "MappingNotFound"
           /\ CallEvts(r.agent, r.k) = {}

\* ScopeLayer::get of X, which has no scope entry, returned the same error as
\* a resolve of B, which has no mapping entry; neither ran a factory
C19_MissingScopeReportedAsMapping ==
    \E r, q \in returned :
        /\ r.op = "get" /\ r.ty = "X" /\ ScopeOf(r.p, "X") = NoScope
        /\ HasMapping(prov[r.p], "X")
        /\ ~r.ok /\ r.err = ServiceBuildError("MappingNotFound", "X", NoKey, 0)
        /\ q.op = "resolve" /\ q.ty = "B" /\ ~HasMapping(prov[q.p], "B")
        /\ ~q.ok /\ q.err.kind = r.err.kind
        /\ events = <<>>

\* C20: a resolve or resolve_all call for a key with no mapping entry returns
\* the error MappingNotFound naming the key as a value (resolve_all returns no
\* list, not even an empty one), runs no factory and leaves every cache, every
\* registry and every constructed state as it was.
C20_UnmappedKeyIsError ==
    [][\A r \in returned' \ returned :
          ~HasMapping(prov[r.p], r.ty) =>
             /\ r.op \in {"resolve", "resolve_all"}
             /\ ~r.ok
             /\ r.vals = <<>>
             /\ r.err = ServiceBuildError("MappingNotFound", r.ty, NoKey, 0)
             /\ r.inv = <<>>
             /\ CallEvts(r.agent, r.k) = {}
             /\ UNCHANGED <<prov, single, tls, task, cell, events, panicked>>]_vars

\* resolve_all of a key with no entry failed on a provider that has a cached
\* singletone
C20_Witness ==
    \E r \in returned :
        /\ r.op = "resolve_all" /\ ~HasMapping(prov[r.p], r.ty)
        /\ ~r.ok /\ r.err.kind = "MappingNotFound" /\ r.err.ty = r.ty
        /\ \E T \in Keys : single[r.p][T].st = "Created"

\* the frames of agent a that are inside the producer of key k
Inside(a, p, k) ==
    {i \in DOMAIN stack[a] :
        stack[a][i].p = p /\ stack[a][i].src = k /\ stack[a][i].pc = "factory"}

\* C21: the lock of a scoped type is held exactly while a frame of the holder
\* is inside the producer's build step for the type: a frame that has left
\* the scope layer (its converter is about to run) holds nothing, an agent
\* whose call has returned or was cut short holds nothing, and the lock of a
\* type no frame is building is free for any other agent.
C21_LockOnlyInsideProducer ==
    /\ \A p \in Providers : \A k \in Keys :
          LET h == single[p][k].holder IN
          /\ h # 0 => (h \in Agents /\ Inside(h, p, k) # {})
          /\ \A a \in Agents : Inside(a, p, k) = {} => h # a
    /\ \A a \in Agents :
          /\ \A i \in DOMAIN stack[a] :
                stack[a][i].pc # "factory" => stack[a][i].holds = "none"
          /\ stack[a] # <<>> /\ Top(stack[a]).pc = "post" =>
                single[Top(stack[a]).p][Top(stack[a]).src].holder # a
          /\ (stack[a] = <<>>) =>
                \A p \in Providers : \A k \in Keys : single[p][k].holder # a

\* one agent holds the singletone A it resolved and is idle while the other
\* agent is about to run the converter on its own copy of A, no lock taken
C21_Witness ==
    \E a, b \in Agents :
        /\ a # b /\ Idle(a)
        /\ \E r \in returned : r.agent = a /\ r.ok /\ r.ty = "A" /\ r.op = "resolve"
        /\ stack[b] # <<>> /\ Top(stack[b]).pc = "post" /\ Top(stack[b]).src = "A"
        /\ Top(stack[b]).res.ok /\ Top(stack[b]).n = 0
        /\ single[1]["A"].holder = 0 /\ single[1]["A"].st = "Created"

\* a builder program with two singletones that resolve nothing and never fail
ProgramPair ==
    register(register(SimpleDiBuilder_new, "Singletone", "A", 1, <<>>, FALSE),
             "Singletone", "B", 2, <<>>, FALSE)

\* SpecPair: two agents on two OS threads resolve A and B of a provider
\* built from ProgramPair
InitPair ==
    /\ prov = [p \in Providers |-> IF p = 1 THEN ProgramPair ELSE SimpleDiBuilder_new]
    /\ single = [p \in Providers |-> IF p = 1 THEN SingleInit(ProgramPair) ELSE NoSingle]
    /\ phase = [p \in Providers |-> IF p = 1 THEN "built" ELSE "unused"]
    /\ nreg = [p \in Providers |-> IF p = 1 THEN 2 ELSE 0]
    /\ shardOf = [k \in Keys |-> 1]
    /\ thr = [a \in Agents |-> a]
    /\ InitRest

NextPair ==
    \E a \in Agents :
        \/ \E ty \in ServiceKeys : CallResolve(a, 1, ty)
        \/ ScopeGet(a)
        \/ FactoryDone(a, FALSE)
        \/ MapStep(a, FALSE)

SpecPair == InitPair /\ [][NextPair]_vars

\* C22: each singletone key has a lock of its own and nothing else is
\* locked: an agent about to enter the scope layer for a key whose own lock is
\* free can go on at once, whichever other keys' builds other agents are
\* inside of and however long those factories run.
C22_OneLockPerKey ==
    \A a \in Agents :
        (/\ stack[a] # <<>>
         /\ Top(stack[a]).pc = "scope"
         /\ single[Top(stack[a]).p][SrcOf(Top(stack[a]).p, Top(stack[a]).ty,
                                          Top(stack[a]).idx)].holder = 0)
        => ENABLED ScopeGet(a)

\* while one agent is still inside B's factory, the other agent started and
\* finished a resolve of A
C22_Witness ==
    \E n, m \in DOMAIN events :
        /\ events[n].ty = "B" /\ events[n].status = "running"
        /\ events[m].ty = "A" /\ events[m].status = "ok" /\ n < m
        /\ events[n].agent # events[m].agent
        /\ single[1]["B"].holder = events[n].agent
        /\ \E r \in returned : r.agent = events[m].agent /\ r.ty = "A" /\ r.ok

\* C23: a resolve nested in a singletone's factory runs wholly inside the
\* enclosing lock: while the nested frame exists the enclosing producer is
\* held by the agent and is Empty (not Created), so the inner lock is taken
\* after and given up before the outer one; a singletone is Created only
\* with the constructions its factory's resolves returned, each of them
\* Created before it.
C23_LocksNestLIFO ==
    /\ \A a \in Agents : \A j \in DOMAIN stack[a] :
          j > 1 =>
             LET o == stack[a][j - 1] IN
             /\ o.pc = "factory"
             /\ ScopeOf(o.p, o.src) = "Singletone" =>
                   /\ single[o.p][o.src].holder = a
                   /\ single[o.p][o.src].st = "Empty"
                   /\ \A k \in Keys :
                         (single[o.p][k].holder = a /\ k # o.src) =>
                            \E i \in DOMAIN stack[a] :
                               stack[a][i].src = k /\ stack[a][i].pc = "factory"
    /\ \A p \in Providers : \A k \in Keys :
          single[p][k].st = "Created" =>
             LET v == single[p][k].instance.service IN
             /\ Len(v.deps) = Len(prov[p].services[k].factory.deps)
             /\ \A i \in DOMAIN v.deps :
                   \E n, m \in DOMAIN events :
                      /\ events[n].what = "factory" /\ events[m].what = "factory"
                      /\ events[n].cid = v.cid /\ events[n].status = "ok"
                      /\ events[m].cid = v.deps[i].cid /\ events[m].status = "ok"
                      /\ single[p][events[m].ty].st = "Created"

\* an agent is inside B's factory, entered from A's factory: it holds both
\* locks, A's taken first
C23_Witness ==
    \E a \in Agents :
        /\ Len(stack[a]) = 2
        /\ stack[a][1].src = "A" /\ stack[a][1].pc = "factory"
        /\ stack[a][2].src = "B" /\ stack[a][2].pc = "factory"
        /\ single[1]["A"].holder = a /\ single[1]["B"].holder = a
        /\ stack[a][1].n < stack[a][2].n

\* a builder program with a dependency cycle: A's factory resolves B and B's
\* factory resolves A
ProgramCycle(kindA, kindB) ==
    register(register(SimpleDiBuilder_new, kindA, "A", 1, <<"B">>, FALSE),
             kindB, "B", 2, <<"A">>, FALSE)

\* SpecCycle: one agent that has entered a task scope resolves A or B of a
\* provider built from ProgramCycle under any two scope policies. The steps
\* that end a factory or a resolve are left out of the next-state relation:
\* C24_CycleNeverCompletes shows that they are enabled in no reachable state.
InitCycle ==
    /\ \E kindA \in ScopeKinds : \E kindB \in ScopeKinds :
          /\ prov = [p \in Providers |->
                        IF p = 1 THEN ProgramCycle(kindA, kindB) ELSE SimpleDiBuilder_new]
          /\ single = [p \in Providers |->
                        IF p = 1 THEN SingleInit(ProgramCycle(kindA, kindB)) ELSE NoSingle]
    /\ phase = [p \in Providers |-> IF p = 1 THEN "built" ELSE "unused"]
    /\ nreg = [p \in Providers |-> IF p = 1 THEN 2 ELSE 0]
    /\ shardOf = [k \in Keys |-> 1]
    /\ thr = [a \in Agents |-> a]
    /\ deep = {}
    /\ dead = {}
    /\ SERVICE_PROVIDER = 0
    /\ regLog = [p \in Providers |-> [k \in Keys |-> NoReg]]
    /\ erased = NoErased
    /\ tls = [t \in Threads |-> [k \in Keys |-> Absent]]
    /\ task = [a \in Agents |->
                 IF a = 1 THEN <<[id |-> 1, inst |-> [k \in Keys |-> Absent]]>> ELSE <<>>]
    /\ nscope = 1
    /\ entered = [a \in Agents |-> IF a = 1 THEN 1 ELSE 0]
    /\ stack = [a \in Agents |-> <<>>]
    /\ panicked = [a \in Agents |-> FALSE]
    /\ calls = [a \in Agents |-> 0]
    /\ cell = <<>>
    /\ events = <<>>
    /\ returned = {}

NextCycle ==
    \/ \E ty \in ServiceKeys : CallResolve(1, 1, ty)
    \/ ScopeGet(1)
    \/ FactoryDep(1)

SpecCycle == InitCycle /\ [][NextCycle]_vars

\* the resolution of agent a can take its next step
Progress(a) ==
    ENABLED (ScopeGet(a) \/ FactoryDep(a) \/ FactoryDone(a, FALSE) \/ MapStep(a, FALSE))

\* the stack of agent a has grown as far as the thread has room
Exhausted(a) == Len(stack[a]) >= MaxDepth

\* agent a is about to take a lock that a frame of its own stack holds
SelfBlocked(a) ==
    /\ stack[a] # <<>>
    /\ Top(stack[a]).pc = "scope"
    /\ LET f == Top(stack[a])
           src == SrcOf(f.p, f.ty, f.idx)
           kind == ScopeOf(f.p, src)
       IN
       \/ kind = "Singletone" /\ single[f.p][src].holder = a
       \/ kind \in {"ThreadLocal", "TaskLocal"} /\ task[a] # <<>> /\ ShardBlocked(a, kind, src)
       \/ kind = "ThreadLocal" /\ ShardBlocked(a, kind, src)

InitLive ==
    /\ \E prog \in {Program("Singletone", "Singletone", {1, 3}),
                    ProgramCycle("Singletone", "Singletone")} :
          /\ prov = [p \in Providers |-> IF p = 1 THEN prog ELSE SimpleDiBuilder_new]
          /\ single = [p \in Providers |-> IF p = 1 THEN SingleInit(prog) ELSE NoSingle]
    /\ phase = [p \in Providers |-> IF p = 1 THEN "built" ELSE "unused"]
    /\ nreg = [p \in Providers |-> IF p = 1 THEN 4 ELSE 0]
    /\ shardOf = [k \in Keys |-> 1]
    /\ thr = [a \in Agents |-> a]
    /\ InitRest

NextLive ==
    \/ CallResolve(1, 1, "A")
    \/ \E ty \in ServiceKeys : CallResolve(2, 1, ty)
    \/ \E a \in Agents : Step(a)

SpecLive == InitLive /\ [][NextLive]_vars /\ WF_vars(\E a \in Agents : Step(a))

\* the singletones of provider 1 depend on each other
CyclicProgram == prov[1].services["B"].factory.deps # <<>>

\* some resolve is in progress and no resolve in progress can take a step
Deadlocked ==
    /\ \E a \in Agents : stack[a] # <<>>
    /\ \A a \in Agents : stack[a] # <<>> => ~ENABLED Step(a)

Migrate(a, t) ==
    /\ Idle(a)
    /\ t # thr[a]
    /\ thr' = [thr EXCEPT ![a] = t]
    /\ UNCHANGED <<regLog, dead, SERVICE_PROVIDER, deep, erased, prov, phase, nreg, single, tls, task, shardOf, stack, panicked,
                   calls, nscope, entered, cell, events, returned>>

\* SpecTask: two tasks that start on one worker thread enter task scopes of
\* their own and resolve the task-local A of ProgramOne, interleaved; the
\* first task is moved between the worker threads
InitTask ==
    /\ prov = [p \in Providers |->
                  IF p = 1 THEN ProgramOne("TaskLocal") ELSE SimpleDiBuilder_new]
    /\ single = [p \in Providers |->
                  IF p = 1 THEN SingleInit(ProgramOne("TaskLocal")) ELSE NoSingle]
    /\ phase = [p \in Providers |-> IF p = 1 THEN "built" ELSE "unused"]
    /\ nreg = [p \in Providers |-> IF p = 1 THEN 1 ELSE 0]
    /\ shardOf = [k \in Keys |-> 1]
    /\ thr = [a \in Agents |-> 1]
    /\ InitRest

NextTask ==
    \/ \E a \in Agents : EnterTaskScope(a)
    \/ \E t \in Threads : Migrate(1, t)
    \/ \E a \in Agents : CallResolve(a, 1, "A")
    \/ \E a \in Agents : ScopeGet(a)
    \/ \E a \in Agents : FactoryDone(a, FALSE)
    \/ \E a \in Agents : MapStep(a, FALSE)

SpecTask == InitTask /\ [][NextTask]_vars

\* C26: the cache of a task-scoped type follows the task, not the OS thread.
\* Every resolve of A a task makes inside a task scope succeeds, on whichever
\* worker thread the task runs; two resolves a task makes inside one task
\* scope return the same construction, also when the task ran on different
\* threads; and two tasks never get the same construction, also when they
\* run on one thread.
C26_TaskCacheFollowsTask ==
    \A r1, r2 \in returned :
        (r1.p = 1 /\ r2.p = 1 /\ r1.ty = "A" /\ r2.ty = "A" /\ r1.scope # 0 /\ r2.scope # 0)
        => /\ r1.ok
           /\ (r1.agent = r2.agent /\ r1.scope = r2.scope)
              => r1.vals[1].cid = r2.vals[1].cid
           /\ (r1.agent # r2.agent /\ r2.ok) => r1.vals[1].cid # r2.vals[1].cid

\* a task resolved A in its scope on one thread and again on the other and
\* got one construction, while the other task was inside a scope of its own
\* on the thread of the first resolve
C26_Witness ==
    \E r1, r2 \in returned :
        /\ r1.ok /\ r2.ok
        /\ r1.agent = r2.agent /\ r1.scope = r2.scope /\ r1.scope # 0
        /\ r1.k < r2.k /\ r1.thr # r2.thr
        /\ r1.vals[1].cid = r2.vals[1].cid
        /\ \E b \in Agents \ {r1.agent} : task[b] # <<>> /\ thr[b] = r1.thr

\* two tasks resolved A on one thread, each inside its own scope
C26_TwoTasksOneThread ==
    \E r1, r2 \in returned :
        /\ r1.ok /\ r2.ok /\ r1.agent # r2.agent /\ r1.thr = r2.thr
        /\ r1.scope # 0 /\ r2.scope # 0
        /\ r1.vals[1].cid # r2.vals[1].cid

\* --- thread-local contexts and the end of a thread

\* an OS thread exits and destroys its thread-locals, THREAD_LOCAL_CTX and
\* the instances it holds among them. Destructors of the thread's other
\* thread-locals run in the same teardown and can still call resolve.
ThreadExit(t) ==
    /\ t \notin dead
    /\ \A a \in Agents : thr[a] = t => stack[a] = <<>>
    /\ dead' = dead \cup {t}
    /\ tls' = [tls EXCEPT ![t] = [k \in Keys |-> Absent]]
    /\ UNCHANGED <<regLog, SERVICE_PROVIDER, deep, erased, prov, phase, nreg, single, task, shardOf, stack, thr,
                   panicked, calls, nscope, entered, cell, events, returned>>

\* one thread-local service whose factory may return Err
ProgramThread == register(SimpleDiBuilder_new, "ThreadLocal", "A", 1, <<>>, TRUE)

\* SpecExit: two agents on two OS threads resolve the thread-local A of
\* ProgramThread; no task scope is ever entered; the threads may exit
InitExit ==
    /\ prov = [p \in Providers |-> IF p = 1 THEN ProgramThread ELSE SimpleDiBuilder_new]
    /\ single = [p \in Providers |-> IF p = 1 THEN SingleInit(ProgramThread) ELSE NoSingle]
    /\ phase = [p \in Providers |-> IF p = 1 THEN "built" ELSE "unused"]
    /\ nreg = [p \in Providers |-> IF p = 1 THEN 1 ELSE 0]
    /\ shardOf = [k \in Keys |-> 1]
    /\ thr = [a \in Agents |-> a]
    /\ InitRest

NextExit ==
    \/ \E a \in Agents : CallResolve(a, 1, "A")
    \/ \E a \in Agents : ScopeGet(a)
    \/ \E a \in Agents : \E fails \in BOOLEAN : FactoryDone(a, fails)
    \/ \E a \in Agents : MapStep(a, FALSE)
    \/ \E t \in Threads : ThreadExit(t)

SpecExit == InitExit /\ [][NextExit]_vars

ContextMissing(r) == ~r.ok /\ r.err.kind = "ThreadLocalContextNotInitialized"

InitOver ==
    /\ prov = [p \in Providers |-> SimpleDiBuilder_new]
    /\ single = [p \in Providers |-> NoSingle]
    /\ phase = [p \in Providers |-> IF p = 1 THEN "building" ELSE "unused"]
    /\ nreg = [p \in Providers |-> 0]
    /\ shardOf = [k \in Keys |-> 1]
    /\ thr = [a \in Agents |-> a]
    /\ InitRest

NextOver ==
    \/ \E kind \in ScopeKinds : Register(1, kind, "A", <<>>, FALSE)
    \/ Build(1)
    \/ CallResolve(1, 1, "A")
    \/ CallResolveAll(1, 1, "A")
    \/ ScopeGet(1)
    \/ FactoryDone(1, FALSE)
    \/ MapStep(1, FALSE)

SpecOver == InitOver /\ [][NextOver]_vars

\* everything callers of provider 1 were handed, one element per value
HandedValues ==
    UNION {{[r |-> r, i |-> i] : i \in DOMAIN r.vals} : r \in {q \in returned : q.p = 1}}

\* what a policy makes observable when one agent on one thread resolves A
\* outside every task scope
PolicyApplied(kind) ==
    CASE kind = "Transient" ->
            /\ single[1]["A"].st = "none"
            /\ \A t \in Threads : tls[t]["A"].st = "Absent"
            /\ \A h1, h2 \in HandedValues :
                  h1 # h2 => h1.r.vals[h1.i].cid # h2.r.vals[h2.i].cid
      [] kind = "Singletone" ->
            /\ single[1]["A"].st # "none"
            /\ \A t \in Threads : tls[t]["A"].st = "Absent"
            /\ Cardinality(OkEvts(1, "A")) <= 1
      [] kind = "ThreadLocal" ->
            /\ single[1]["A"].st = "none"
            /\ Cardinality(OkEvts(1, "A")) <= 1
            /\ (OkEvts(1, "A") # {}) => \E t \in Threads : tls[t]["A"].st # "Absent"
      [] kind = "TaskLocal" ->
            /\ single[1]["A"].st = "none"
            /\ \A t \in Threads : tls[t]["A"].st = "Absent"
            /\ Evts(1, "A") = {}
            /\ \A r \in returned :
                  ~r.ok /\ r.err.kind = "TaskLocalContextNotInitialized"

\* C28: one constructor entry and one scope entry per key. After A was
\* registered several times, with any scope kinds, the provider holds the
\* factory and the policy of the last registration only: every factory run
\* and every value handed out is the last factory's, and the policy that
\* shows in caching is the last one registered.
C28_ReRegistrationOverwrites ==
    LET lg == regLog[1]["A"] IN
    (phase[1] = "built" /\ lg.count > 0)
    => /\ prov[1].services["A"].factory.fid = lg.n
       /\ prov[1].scopes["A"] = [ty |-> "A", scope |-> lg.kind]
       /\ \A n \in Evts(1, "A") : events[n].fid = lg.n
       /\ \A h \in HandedValues : h.r.vals[h.i].fid = lg.n
       /\ PolicyApplied(lg.kind)

\* A was registered twice, the second time as a transient: two resolves ran
\* the second factory twice and nothing was cached
C28_Witness ==
    /\ regLog[1]["A"].count = 2 /\ regLog[1]["A"].kind = "Transient"
    /\ single[1]["A"].st = "none"
    /\ \E r1, r2 \in returned :
          /\ r1.ok /\ r2.ok /\ r1.op = "resolve" /\ r2.op = "resolve"
          /\ r1.vals[1].cid # r2.vals[1].cid
          /\ r1.vals[1].fid = 2 /\ r2.vals[1].fid = 2

\* the entries under T that a registration of T added by itself
IdentityEntries(p, T) ==
    {i \in DOMAIN prov[p].mappings[T] :
        /\ prov[p].mappings[T][i].mapper.kind = "id"
        /\ prov[p].mappings[T][i].src_ty = T}

\* the values of a resolve_all result that came through no user mapper
IdentityValues(r) == {i \in DOMAIN r.vals : r.vals[i].via = <<>>}

\* C29: mapping registration appends and never replaces. The list under a
\* destination holds one entry per add_mapping call, in call order, one
\* identity entry per registration of the key among them; so after T was
\* registered k times resolve_all(T) returns one value per entry, k of them
\* through identity entries and each of those built by the last factory
\* registered for T, while T has one constructor entry.
C29_MappingsAppend ==
    /\ Len(prov[1].mappings["A"]) + Len(prov[1].mappings["B"])
          + Len(prov[1].mappings["X"]) = nreg[1]
    /\ \A T \in ServiceKeys :
          LET list == prov[1].mappings[T] IN
          /\ \A i, j \in DOMAIN list : i < j => list[i].mapper.mid < list[j].mapper.mid
          /\ Cardinality(IdentityEntries(1, T)) = regLog[1][T].count
          /\ regLog[1][T].count > 0 => prov[1].services[T].factory.fid = regLog[1][T].n
    /\ \A r \in returned :
          (r.p = 1 /\ r.op = "resolve_all" /\ r.ok)
          => /\ Len(r.vals) = Len(prov[1].mappings[r.ty])
             /\ Cardinality(IdentityValues(r)) = regLog[1][r.ty].count
             /\ \A i \in IdentityValues(r) :
                   r.vals[i].dyn = r.ty /\ r.vals[i].fid = regLog[1][r.ty].n

\* a key was registered twice and resolve_all of it returned two values of
\* the second factory
C29_Witness ==
    \E r \in returned :
        /\ r.p = 1 /\ r.op = "resolve_all" /\ r.ok
        /\ regLog[1][r.ty].count = 2
        /\ Len(r.vals) = 2
        /\ IdentityValues(r) = {1, 2}
        /\ r.vals[1].fid = regLog[1][r.ty].n /\ r.vals[2].fid = regLog[1][r.ty].n
        /\ r.vals[1].fid > 1

\* C30: resolve_all is all-or-nothing and stops at the first failure. A call
\* in which a factory or a converter returned Err returns that error and no
\* list (a successful call returns one value per entry); when the k-th entry
\* failed, no factory of a later entry's source and no converter of a later
\* entry ran in the call, and the singletones resolved for the entries
\* before k stay constructed.
C30_ResolveAllStopsAtFirstFailure ==
    \A r \in returned :
        (r.p = 1 /\ r.op = "resolve_all")
        => LET list == prov[1].mappings[r.ty]
               k == Len(r.inv)
           IN
           /\ (\E n \in CallEvts(r.agent, r.k) : events[n].status = "err") => ~r.ok
           /\ r.ok => Len(r.vals) = Len(list)
           /\ ~r.ok =>
                 /\ r.vals = <<>>
                 /\ k <= Len(list)
                 /\ \A n \in CallEvts(r.agent, r.k) : events[n].status = "err" => events[n].err = r.err
                 /\ \A j \in (k + 1)..Len(list) : \A n \in CallEvts(r.agent, r.k) :
                       /\ events[n].what = "factory" => events[n].ty # list[j].src_ty
                       /\ events[n].what = "mapper" => events[n].fid # list[j].mapper.mid
                 /\ \A j \in 1..(k - 1) :
                       ScopeOf(1, list[j].src_ty) = "Singletone"
                       => single[1][list[j].src_ty].st = "Created"

\* resolve_all of X constructed the singletone B for the first entry and
\* failed in A's factory at the second: it returned the error, and B is
\* still constructed
C30_Witness ==
    \E r \in returned :
        /\ r.p = 1 /\ r.op = "resolve_all" /\ r.ty = "X" /\ ~r.ok
        /\ Len(r.inv) = 2
        /\ r.err.kind = "Custom" /\ r.err.origin = FidOf(1, "A")
        /\ \E n \in CallEvts(r.agent, r.k) : events[n].ty = "B" /\ events[n].status = "ok"
        /\ single[1]["B"].st = "Created"
        /\ single[1]["A"].st # "Created"

\* resolve_all of X failed at the first entry and A's factory never ran
C30_FirstEntryFails ==
    \E r \in returned :
        /\ r.p = 1 /\ r.op = "resolve_all" /\ r.ty = "X" /\ ~r.ok
        /\ Len(r.inv) = 1
        /\ Evts(1, "A") = {}

\* C31: for a thread-scoped or task-scoped type, a resolve whose factory
\* returned Err leaves the producer of that thread or task scope Pending with
\* no instance; the next resolve of the type there runs the factory again
\* and, when that run succeeds, stores its construction and returns it.
C31_FailedScopedBuildRetried ==
    [][\A r \in returned' \ returned :
          LET kind == ScopeOf(1, "A")
              st == IF kind = "ThreadLocal" THEN tls'[r.thr]["A"]
                    ELSE Top(task'[r.agent]).inst["A"]
          IN
          (kind \in {"ThreadLocal", "TaskLocal"} /\ r.p = 1 /\ r.ty = "A")
          => /\ (~r.ok /\ r.err.kind = "Custom") => st = Pending
             /\ \A q \in returned :
                   (/\ q.agent = r.agent /\ q.k + 1 = r.k /\ q.p = 1 /\ q.ty = "A"
                    /\ ~q.ok /\ q.err.kind = "Custom"
                    /\ InstanceOf(kind, q) = InstanceOf(kind, r))
                   => /\ r.inv[1] # 0
                      /\ events'[r.inv[1]].agent = r.agent
                      /\ events'[r.inv[1]].k = r.k
                      /\ r.ok =>
                            /\ events'[r.inv[1]].status = "ok"
                            /\ r.vals[1].cid = events'[r.inv[1]].cid
                            /\ st.st = "Created"
                            /\ st.instance.service.cid = r.vals[1].cid
                      /\ ~r.ok => r.err.kind = "Custom" /\ st = Pending]_vars

\* on one thread the factory of a thread-local A failed in one resolve and
\* ran again in the next, which returned its construction, now stored
C31_Witness ==
    \E r1, r2 \in returned :
        /\ ScopeOf(1, "A") = "ThreadLocal"
        /\ r1.agent = r2.agent /\ r1.k + 1 = r2.k /\ r1.thr = r2.thr
        /\ ~r1.ok /\ r1.err.kind = "Custom"
        /\ r2.ok /\ r2.inv[1] # 0 /\ r2.inv[1] # r1.inv[1]
        /\ tls[r2.thr]["A"].st = "Created"
        /\ tls[r2.thr]["A"].instance.service.cid = r2.vals[1].cid

\* the same inside one task scope, for a task-local A
C31_TaskScopeRetried ==
    \E r1, r2 \in returned :
        /\ ScopeOf(1, "A") = "TaskLocal"
        /\ r1.agent = r2.agent /\ r1.k + 1 = r2.k /\ r1.scope = r2.scope /\ r1.scope # 0
        /\ ~r1.ok /\ r1.err.kind = "Custom"
        /\ r2.ok /\ r2.inv[1] # 0

\* the results of resolving the task-local A inside a task scope
InScope == {r \in returned : r.p = 1 /\ r.ty = "A" /\ r.ok /\ r.scope # 0}

\* C32: task scopes nest as a stack. A scope entered inside an active one
\* starts with an empty registry on top of the outer ones, resolves touch
\* the innermost registry only, and leaving the inner scope brings back the
\* outer one as it was. So a resolve of a task-scoped type in the inner scope
\* returns a construction of a factory run made in the inner scope, never the
\* outer one's, and resolves in the outer scope return the outer scope's one
\* construction before and after the inner scope.
C32_TaskScopesNest ==
    /\ [](ScopeOf(1, "A") = "TaskLocal" =>
            /\ \A r \in InScope :
                  \E n \in OkEvts(1, "A") :
                      events[n].scope = r.scope /\ events[n].cid = r.vals[1].cid
            /\ \A r1, r2 \in InScope :
                  (r1.scope = r2.scope) <=> (r1.vals[1].cid = r2.vals[1].cid)
            /\ \A a \in Agents : \A i \in DOMAIN task[a] :
                  /\ \A j \in DOMAIN task[a] : i < j => task[a][i].id < task[a][j].id
                  /\ task[a][i].inst["A"].st = "Created" =>
                        \E n \in OkEvts(1, "A") :
                            /\ events[n].scope = task[a][i].id
                            /\ events[n].cid = task[a][i].inst["A"].instance.service.cid)
    /\ [][\A a \in Agents :
            LET old == task[a]
                new == task'[a]
            IN
            /\ Len(new) = Len(old) + 1 =>
                  /\ SubSeq(new, 1, Len(old)) = old
                  /\ Top(new).inst = [k \in Keys |-> Absent]
            /\ Len(new) = Len(old) - 1 => new = Pop(old)
            /\ Len(new) = Len(old) =>
                  \A i \in 1..(Len(old) - 1) : new[i] = old[i]]_vars

\* inside a scope that holds a construction of A the task entered a second
\* scope and resolved A there: the factory ran again, the inner scope holds
\* the new construction and the outer one still holds its own
C32_Witness ==
    /\ ScopeOf(1, "A") = "TaskLocal"
    /\ \E a \in Agents : \E r1, r2 \in InScope :
          /\ Len(task[a]) = 2
          /\ r1.agent = a /\ r2.agent = a /\ r1.k < r2.k
          /\ r1.scope = task[a][1].id /\ r2.scope = task[a][2].id
          /\ r2.inv[1] # 0
          /\ r1.vals[1].cid # r2.vals[1].cid
          /\ task[a][1].inst["A"].instance.service.cid = r1.vals[1].cid
          /\ task[a][2].inst["A"].instance.service.cid = r2.vals[1].cid

\* the task resolved A in a scope, entered and left a second scope, and a
\* resolve in the first scope returned the first construction without a
\* factory run
C32_OuterCacheSurvives ==
    /\ ScopeOf(1, "A") = "TaskLocal"
    /\ \E a \in Agents : \E r1, r2 \in InScope :
          /\ Len(task[a]) = 1 /\ entered[a] = 2 /\ task[a][1].id = 1
          /\ r1.agent = a /\ r2.agent = a /\ r1.k < r2.k
          /\ r1.scope = 1 /\ r2.scope = 1
          /\ r2.inv[1] = 0
          /\ r1.vals[1].cid = r2.vals[1].cid

\* C33: after any sequence of registration calls the source key of every
\* mapping entry has a constructor entry and a scope entry, each under its
\* own key; so a resolve or resolve_all of a key that has a mapping never
\* fails because a service or a scope is missing.
C33_MappedSourcesRegistered ==
    /\ \A D \in Keys : \A i \in DOMAIN prov[1].mappings[D] :
          LET src == prov[1].mappings[D][i].src_ty IN
          /\ prov[1].services[src] # NoService
          /\ prov[1].services[src].ty = src
          /\ prov[1].scopes[src].scope \in ScopeKinds
          /\ prov[1].scopes[src].ty = src
    /\ \A r \in returned :
          (r.p = 1 /\ HasMapping(prov[1], r.ty))
          => \/ r.ok
             \/ r.err.kind \notin {"ServiceNotDound", "ScopeNotFound", "MappingNotFound"}

\* a key whose first mapping entry comes from another key's constructor was
\* resolved on the built provider and a value came back
C33_Witness ==
    \E r \in returned :
        /\ r.p = 1 /\ r.ok /\ r.op = "resolve"
        /\ prov[1].mappings[r.ty][1].src_ty # r.ty
        /\ prov[1].mappings[r.ty][1].mapper.kind = "user"
        /\ r.vals[1].fid = prov[1].services[prov[1].mappings[r.ty][1].src_ty].factory.fid

\* --- two provider trees

\* SpecTree: two providers built separately from the same program, A a
\* singletone; two agents on two OS threads hold handles to both and resolve
\* A through either
InitTree ==
    /\ prov = [p \in Providers |-> ProgramOne("Singletone")]
    /\ single = [p \in Providers |-> SingleInit(ProgramOne("Singletone"))]
    /\ phase = [p \in Providers |-> "built"]
    /\ nreg = [p \in Providers |-> 1]
    /\ shardOf = [k \in Keys |-> 1]
    /\ thr = [a \in Agents |-> a]
    /\ InitRest

NextTree ==
    \/ \E a \in Agents : \E p \in Providers : CallResolve(a, p, "A")
    \/ \E a \in Agents : ScopeGet(a)
    \/ \E a \in Agents : FactoryDone(a, FALSE)
    \/ \E a \in Agents : MapStep(a, FALSE)

SpecTree == InitTree /\ [][NextTree]_vars

\* C34: a singletone is cached once per provider. All resolves through one
\* provider, from any handle and thread, return the one construction of that
\* provider's single factory run; a separately built provider runs its own
\* factory and returns only its own construction.
C34_SingletonePerProviderTree ==
    /\ \A p \in Providers : Cardinality(Evts(p, "A")) <= 1
    /\ \A r \in returned :
          /\ r.ok
          /\ \E n \in OkEvts(r.p, "A") : events[n].cid = r.vals[1].cid
    /\ \A r1, r2 \in returned :
          (r1.p = r2.p) <=> (r1.vals[1].cid = r2.vals[1].cid)
    /\ \A p \in Providers :
          single[p]["A"].st = "Created" =>
             \E n \in OkEvts(p, "A") : events[n].cid = single[p]["A"].instance.service.cid

\* two agents on two threads resolved A through the same provider and got
\* one construction
C34_Witness ==
    \E r1, r2 \in returned :
        /\ r1.agent # r2.agent /\ r1.thr # r2.thr
        /\ r1.p = r2.p
        /\ r1.vals[1].cid = r2.vals[1].cid
        /\ Cardinality(Evts(r1.p, "A")) = 1

\* A was resolved through both providers: two factory runs, two constructions
C34_TwoTrees ==
    \E r1, r2 \in returned :
        /\ r1.p # r2.p
        /\ r1.vals[1].cid # r2.vals[1].cid
        /\ Cardinality(Evts(1, "A")) = 1 /\ Cardinality(Evts(2, "A")) = 1

\* C35: resolving a transient type takes no lock. An agent about to enter
\* the scope layer for a transient key can always go on, whatever the other
\* agents are in the middle of, its own factory included; no mutex state
\* exists for the key; and each resolve of the key runs the factory once, on
\* the calling agent's thread.
C35_TransientTakesNoLock ==
    /\ \A a \in Agents :
          (/\ stack[a] # <<>>
           /\ Top(stack[a]).pc = "scope"
           /\ ScopeOf(Top(stack[a]).p,
                      SrcOf(Top(stack[a]).p, Top(stack[a]).ty, Top(stack[a]).idx)) = "Transient")
          => ENABLED ScopeGet(a)
    /\ \A p \in Providers : \A k \in Keys :
          ScopeOf(p, k) = "Transient" => single[p][k] = NoSingle[k]
    /\ \A r \in returned :
          (r.p = 1 /\ r.op = "resolve" /\ r.ty = "A" /\ ScopeOf(1, "A") = "Transient")
          => /\ r.inv[1] # 0
             /\ {n \in CallEvts(r.agent, r.k) : events[n].ty = "A"} = {r.inv[1]}
             /\ events[r.inv[1]].agent = r.agent
             /\ events[r.inv[1]].thr = r.thr

\* two agents on two threads are inside the factory of the transient A at
\* the same time
C35_Witness ==
    /\ ScopeOf(1, "A") = "Transient"
    /\ \E n, m \in Evts(1, "A") :
          /\ events[n].status = "running" /\ events[m].status = "running"
          /\ events[n].agent # events[m].agent
          /\ events[n].thr # events[m].thr

\* --- the process-wide provider

\* variant: a later set replaces the value
OnceLock_set_Replace(cur, p) == [ok |-> TRUE, val |-> p]

\* OnceLock::set: stores the value when the cell is empty, else gives it back
\* as Err and leaves the cell alone
OnceLock_set(cur, p) ==
    IF cur = 0 THEN [ok |-> TRUE, val |-> p] ELSE [ok |-> FALSE, val |-> cur]

\* ServiceProvider::get: SERVICE_PROVIDER.get(), 0 standing for None
ServiceProvider_get == SERVICE_PROVIDER

\* ServiceProvider::install_global: SERVICE_PROVIDER.set(self).unwrap()
install_global(a, p) ==
    LET s == OnceLock_set(SERVICE_PROVIDER, p) IN
    /\ SERVICE_PROVIDER' = s.val
    /\ panicked' = [panicked EXCEPT ![a] = ~s.ok]
    /\ events' = Append(events, [Invocation(a, p, NoKey, 0) EXCEPT
                                    !.what = "install",
                                    !.status = IF s.ok THEN "ok" ELSE "err"])

\* an agent installs its handle to the built provider p
InstallGlobal(a, p) ==
    /\ Idle(a)
    /\ phase[p] = "built"
    /\ install_global(a, p)
    /\ UNCHANGED <<regLog, dead, deep, erased, prov, phase, nreg, single, tls, task, shardOf,
                   stack, thr, calls, nscope, entered, cell, returned>>

\* SimpleDiBuilder::build_global: self.build().install_global()
BuildGlobal(a, p) ==
    /\ Idle(a)
    /\ BuilderAlive(p)
    /\ phase' = [phase EXCEPT ![p] = "built"]
    /\ single' = [single EXCEPT ![p] = SingleInit(prov[p])]
    /\ install_global(a, p)
    /\ UNCHANGED <<regLog, dead, deep, erased, prov, nreg, tls, task, shardOf, stack, thr,
                   calls, nscope, entered, cell, returned>>

\* ServiceProvider::get().unwrap().resolve::<ty>() in a place where a
\* provider is installed
CallResolveGlobal(a, ty) ==
    /\ ServiceProvider_get # 0
    /\ CallResolve(a, ServiceProvider_get, ty)

\* SpecGlobal: provider 1 is built, the builder of provider 2 still open;
\* two agents install providers, build_global the open builder, and resolve
\* A through the installed provider
InitGlobal ==
    /\ prov = [p \in Providers |-> ProgramOne("Singletone")]
    /\ single = [p \in Providers |->
                    IF p = 1 THEN SingleInit(ProgramOne("Singletone")) ELSE NoSingle]
    /\ phase = [p \in Providers |-> IF p = 1 THEN "built" ELSE "building"]
    /\ nreg = [p \in Providers |-> 1]
    /\ shardOf = [k \in Keys |-> 1]
    /\ thr = [a \in Agents |-> a]
    /\ InitRest

NextGlobal ==
    \/ \E a \in Agents : \E p \in Providers : InstallGlobal(a, p)
    \/ \E a \in Agents : BuildGlobal(a, 2)
    \/ Build(2)
    \/ \E a \in Agents : CallResolveGlobal(a, "A")
    \/ \E a \in Agents : ScopeGet(a)
    \/ \E a \in Agents : FactoryDone(a, FALSE)
    \/ \E a \in Agents : MapStep(a, FALSE)

SpecGlobal == InitGlobal /\ [][NextGlobal]_vars

\* the install attempts, in order
Installs == {n \in DOMAIN events : events[n].what = "install"}

\* C36: the process-wide provider is installed at most once.
\* ServiceProvider::get gives none until the first install_global or
\* build_global and that first provider ever after; every later install
\* faults in its caller and replaces nothing.
C36_GlobalInstalledOnce ==
    /\ [](/\ (ServiceProvider_get = 0) <=> (Installs = {})
          /\ \A n \in Installs :
                IF \A m \in Installs : n <= m
                THEN /\ events[n].status = "ok"
                     /\ ServiceProvider_get = events[n].p
                ELSE /\ events[n].status = "err"
                     /\ panicked[events[n].agent]
          /\ \A r \in returned :
                \E n \in Installs :
                    /\ \A m \in Installs : n <= m
                    /\ r.p = events[n].p)
    /\ [][ServiceProvider_get # 0 => ServiceProvider_get' = ServiceProvider_get]_vars

\* a provider was installed, a second install faulted in its caller, and a
\* resolve through ServiceProvider::get afterwards used the first provider
C36_Witness ==
    \E n, m \in Installs : \E r \in returned :
        /\ n < m
        /\ events[n].status = "ok" /\ events[m].status = "err"
        /\ events[n].p # events[m].p
        /\ panicked[events[m].agent]
        /\ ServiceProvider_get = events[n].p
        /\ r.ok /\ r.p = events[n].p
        /\ \E e \in Evts(r.p, "A") : m < e /\ events[e].k = r.k /\ events[e].agent = r.agent

\* --- the identity assertions of the layers

\* SpecKinds: one agent registers up to MaxRegs constructors of A, of any of
\* the four scope kinds (resolving nothing, free to fail), and projections of
\* A onto A and B, on provider 1 in any order, builds it, enters a task
\* scope or not, and resolves A and B from it, one at a time or all entries
InitKinds ==
    /\ prov = [p \in Providers |-> SimpleDiBuilder_new]
    /\ single = [p \in Providers |-> NoSingle]
    /\ phase = [p \in Providers |-> IF p = 1 THEN "building" ELSE "unused"]
    /\ nreg = [p \in Providers |-> 0]
    /\ shardOf = [k \in Keys |-> 1]
    /\ thr = [a \in Agents |-> a]
    /\ InitRest

NextKinds ==
    \/ \E kind \in ScopeKinds : Register(1, kind, "A", <<>>, TRUE)
    \/ \E TDst \in ServiceKeys : MapAs(1, "A", TDst, FALSE)
    \/ Build(1)
    \/ (phase[1] = "built" /\ calls[1] = 0 /\ nscope = 0 /\ EnterTaskScope(1))
    \/ \E ty \in ServiceKeys : CallResolve(1, 1, ty)
    \/ \E ty \in ServiceKeys : CallResolveAll(1, 1, ty)
    \/ ScopeGet(1)
    \/ \E fails \in BOOLEAN : FactoryDone(1, fails)
    \/ MapStep(1, FALSE)

SpecKinds == InitKinds /\ [][NextKinds]_vars

\* the assertions of ScopeLayer::get, for an activation about to look up its
\* scope entry: they are reached when the scope and constructor entries exist
ScopeAssertsHold(f) ==
    LET reg == prov[f.p]
        src == IF f.op = "get" THEN f.ty ELSE reg.mappings[f.ty][f.idx].src_ty
        service == ServiceLayer_get(reg, src)
    IN (reg.scopes[src].scope # NoScope /\ service.ok)
          => ScopeAsserts(reg.scopes[src], src, service.val)

\* the assertions of the mapping layer, for an activation the scope layer
\* returned a value to
MappingAssertsHold(f) ==
    (f.op # "get" /\ f.res.ok)
       => MappingAsserts(prov[f.p].mappings[f.ty][f.idx], f.ty, f.res.val)

\* C37: the internal identity assertions never fail for a provider made
\* through the builder API. Wherever a resolve reaches them, the scope
\* entry's key is the requested key and the constructor entry's key, the
\* selected mapping entry's destination is the requested key, and the erased
\* value from the scope layer carries the entry's source key; a fault never
\* starts in the mapping layer, and one in the scope layer starts with its
\* two assertions true.
C37_IdentityAssertionsHold ==
    /\ [](\A a \in Agents : \A i \in DOMAIN stack[a] :
            /\ stack[a][i].pc = "scope" => ScopeAssertsHold(stack[a][i])
            /\ stack[a][i].pc = "post" => MappingAssertsHold(stack[a][i]))
    /\ [][\A a \in Agents :
            (~panicked[a] /\ panicked'[a]) =>
                /\ stack[a] # <<>>
                /\ Top(stack[a]).pc = "scope"
                /\ ScopeAssertsHold(Top(stack[a]))]_vars

\* a resolve of B through a projection of a scoped A passed the assertions of
\* both layers and returned: the entry's destination is B, its source A, and
\* the value built as A went through the entry's projection
C37_Witness ==
    \E r \in returned :
        /\ r.ok /\ r.op = "resolve" /\ r.ty = "B"
        /\ prov[r.p].mappings["B"][1].src_ty = "A"
        /\ prov[r.p].mappings["B"][1].dest_ty = "B"
        /\ prov[r.p].scopes["A"].scope = "TaskLocal"
        /\ prov[r.p].scopes["A"].ty = "A"
        /\ r.vals[1].dyn = "B" /\ r.vals[1].via # <<>>
        /\ \E e \in Evts(r.p, "A") : events[e].k = r.k /\ events[e].agent = r.agent

====
